---- MODULE Spec2Model ----
(***************************************************************************)
(* usrsvc: a user CRUD service.  Three layers are modelled:                *)
(*   transport  (app/grpc.go, app/validation.go, app/errors.go)            *)
(*   service    (internal/users/service)                                   *)
(*   storage    (internal/users/repository, migrations/001: table users)   *)
(* Strings whose characters the code inspects (names, passwords, country   *)
(* codes) are sequences of one-character strings.  UUID strings are the    *)
(* integers 1..MaxId ordered as PostgreSQL orders the uuid column; 0 is    *)
(* the empty string and -1 a string that uuid.Parse rejects.               *)
(***************************************************************************)
EXTENDS Integers, Sequences, FiniteSets, TLC

\* ------------------------------------------------------------------ bounds
MaxId == 3
\* the last tick of the clock
MaxClock == 6

\* the request workers
Procs == {1, 2}
UUIDs == 1..MaxId

\* ------------------------------------------------------- program constants
defaultPageSize == 100
minNameLength == 2
maxNameLength == 50
minPasswordLength == 8
maxPasswordLength == 128
countryCodeLength == 2

\* the empty id / page token "" and a token uuid.Parse rejects
EmptyID == 0
MalformedID == 0 - 1

\* ------------------------------------------------------------- characters
Letters == {"U", "S", "B", "R", "A", "u", "s", "b", "r", "a"}
Digits == {"0", "1"}
Spaces == {" "}
\* letters outside ASCII; UTF-8 encodes each in two bytes
TwoByteLetters == {"é", "É"}

IsLetter(c) == c \in Letters \cup TwoByteLetters
IsNumber(c) == c \in Digits
IsSpace(c) == c \in Spaces

ToUpperChar(c) ==
    CASE c = "u" -> "U"
      [] c = "s" -> "S"
      [] c = "b" -> "B"
      [] c = "r" -> "R"
      [] c = "a" -> "A"
      [] c = "é" -> "É"
      [] OTHER -> c

\* the builtin len of a Go string: the number of bytes of its UTF-8 encoding
len(s) == Len(s) + Cardinality({i \in 1..Len(s) : s[i] \in TwoByteLetters})

\* strings.ToUpper
ToUpper(s) == [i \in 1..Len(s) |-> ToUpperChar(s[i])]

RECURSIVE TrimLeft(_)
TrimLeft(s) ==
    IF s # <<>> /\ IsSpace(Head(s)) THEN TrimLeft(Tail(s)) ELSE s

RECURSIVE TrimRight(_)
TrimRight(s) ==
    IF s # <<>> /\ IsSpace(s[Len(s)])
    THEN TrimRight(SubSeq(s, 1, Len(s) - 1))
    ELSE s

\* strings.TrimSpace
TrimSpace(s) == TrimRight(TrimLeft(s))

\* a string of n copies of the character c
Rep(c, n) == [i \in 1..n |-> c]

\* ---------------------------------------------------------------- errors
\* An error below the transport is the chain errors.Unwrap walks: the text
\* of the outermost fmt.Errorf first, the sentinel or driver error last. The
\* nil error is the empty chain.
Nil == <<>>

errors_New(text) == <<text>>

\* fmt.Errorf("<msg>: %w", err)
Wrap(msg, err) == <<msg>> \o err

errors_Is(err, target) == \E i \in 1..Len(err) : err[i] = target

\* ------------------------------------------------------ transport errors
\* app/errors.go: every error value carries the status code it was built with
StatusCode(err) ==
    CASE err = "nil" -> "OK"
      [] err = "ErrCountryCodeInvalid" -> "InvalidArgument"
      [] err = "ErrPageTokenInvalid" -> "InvalidArgument"
      [] err = "ErrUserAlreadyExists" -> "AlreadyExists"
      [] err = "ErrUserNotFound" -> "NotFound"
      [] OTHER -> "Internal"

\* a conversion without the case for service.ErrUserAlreadyExists
convertServiceError_NoAlreadyExists(svcErr) ==
    IF errors_Is(svcErr, "service.ErrCountryCodeInvalid")
    THEN "ErrCountryCodeInvalid"
    ELSE IF errors_Is(svcErr, "service.ErrUserNotFound")
    THEN "ErrUserNotFound"
    ELSE "ErrInternal"

\* a conversion that compares with == instead of errors.Is
convertServiceError_NoUnwrap(svcErr) ==
    IF svcErr = errors_New("service.ErrCountryCodeInvalid")
    THEN "ErrCountryCodeInvalid"
    ELSE IF svcErr = errors_New("service.ErrUserNotFound")
    THEN "ErrUserNotFound"
    ELSE IF svcErr = errors_New("service.ErrUserAlreadyExists")
    THEN "ErrUserAlreadyExists"
    ELSE "ErrInternal"

\* service error -> transport error
convertServiceError(svcErr) ==
    IF errors_Is(svcErr, "service.ErrCountryCodeInvalid")
    THEN "ErrCountryCodeInvalid"
    ELSE IF errors_Is(svcErr, "service.ErrUserNotFound")
    THEN "ErrUserNotFound"
    ELSE IF errors_Is(svcErr, "service.ErrUserAlreadyExists")
    THEN "ErrUserAlreadyExists"
    ELSE "ErrInternal"

\* ---------------------------------------------------------- validation
\* uuid.Parse succeeds
IsUUID(id) == id \in UUIDs

\* addresses net/mail.ParseAddress accepts
ParseableEmails == {"a@x", "b@x", "c@x", "d@x", "e@x"}

validateName(name) ==
    IF name = <<>> THEN "ErrNameRequired"
    ELSE IF \E i \in 1..Len(name) : ~IsLetter(name[i]) /\ ~IsSpace(name[i])
         THEN "ErrNameFormat"
    ELSE IF len(name) < minNameLength \/ len(name) > maxNameLength
         THEN "ErrNameLength"
    ELSE "nil"

validateEmail(email) ==
    IF email = "" THEN "ErrEmailRequired"
    ELSE IF email \notin ParseableEmails THEN "ErrEmailFormat"
    ELSE "nil"

validatePassword(password) ==
    IF password = <<>> THEN "ErrPasswordRequired"
    ELSE IF len(password) < minPasswordLength \/ len(password) > maxPasswordLength
         THEN "ErrPasswordLength"
    ELSE LET hasNumber == \E i \in 1..Len(password) : IsNumber(password[i])
             hasLetter == \E i \in 1..Len(password) : IsLetter(password[i])
             hasSpecial == \E i \in 1..Len(password) :
                              ~IsLetter(password[i]) /\ ~IsNumber(password[i])
         IN IF ~hasNumber \/ ~hasLetter \/ ~hasSpecial
            THEN "ErrPasswordFormat"
            ELSE "nil"

validateID(id) ==
    IF id = EmptyID THEN "ErrIDRequired"
    ELSE IF ~IsUUID(id) THEN "ErrIDFormat"
    ELSE "nil"

validateCountryCode(country) ==
    IF country = <<>> THEN "ErrCountryCodeRequired"
    ELSE IF len(country) # 2 THEN "ErrCountryCodeInvalid"
    ELSE "nil"

\* the first error of a sequence of checks, "nil" when all pass
RECURSIVE FirstError(_)
FirstError(errs) ==
    IF errs = <<>> THEN "nil"
    ELSE IF Head(errs) # "nil" THEN Head(errs)
    ELSE FirstError(Tail(errs))

validateCreateUserRequest(req) ==
    FirstError(<<validateName(req.first_name), validateName(req.last_name),
                 validateName(req.nickname), validateEmail(req.email),
                 validatePassword(req.password),
                 validateCountryCode(req.country)>>)

validateUpdateUserRequest(req) ==
    FirstError(<<validateID(req.id),
                 validateName(req.first_name), validateName(req.last_name),
                 validateName(req.nickname), validateEmail(req.email),
                 validatePassword(req.password),
                 validateCountryCode(req.country)>>)

\* ------------------------------------------------------------ user models
\* zero value of the user structs (repository.User, service.User, apiv1.User)
NilUser ==
    [id |-> EmptyID, first_name |-> <<>>, last_name |-> <<>>, nickname |-> <<>>,
     password |-> <<>>, email |-> "", country |-> <<>>,
     created_at |-> 0, updated_at |-> 0]

\* a conversion that exchanges the two timestamps
newUserStoreFromDomain_Swapped(user) ==
    [id |-> user.id, first_name |-> user.first_name, last_name |-> user.last_name,
     nickname |-> user.nickname, password |-> user.password, email |-> user.email,
     country |-> user.country, created_at |-> user.updated_at,
     updated_at |-> user.created_at]

newUserStoreFromDomain(user) ==
    [id |-> user.id, first_name |-> user.first_name, last_name |-> user.last_name,
     nickname |-> user.nickname, password |-> user.password, email |-> user.email,
     country |-> user.country, created_at |-> user.created_at,
     updated_at |-> user.updated_at]

newUserDomainFromStore(user) ==
    [id |-> user.id, first_name |-> user.first_name, last_name |-> user.last_name,
     nickname |-> user.nickname, password |-> user.password, email |-> user.email,
     country |-> user.country, created_at |-> user.created_at,
     updated_at |-> user.updated_at]

\* the wire user carries no password field
newUserResponseFromDomain(user) ==
    [id |-> user.id, first_name |-> user.first_name, last_name |-> user.last_name,
     nickname |-> user.nickname, email |-> user.email, country |-> user.country,
     created_at |-> user.created_at, updated_at |-> user.updated_at]

NilWireUser == newUserResponseFromDomain(NilUser)

\* the UTF-8 encoding of a character
utf8(c) ==
    CASE c = "é" -> <<"0xC3", "0xA9">>
      [] c = "É" -> <<"0xC3", "0x89">>
      [] OTHER -> <<c>>

\* []byte(s): the bytes of a string
RECURSIVE Bytes(_)
Bytes(s) ==
    IF s = <<>> THEN <<>>
    ELSE IF Len(s) = 1 THEN utf8(s[1])
    ELSE LET half == Len(s) \div 2
         IN Bytes(SubSeq(s, 1, half)) \o Bytes(SubSeq(s, half + 1, Len(s)))

\* a hash function that returns its input
Hash_Plain(password) == password

\* the hash bcrypt makes of the bytes of a password: never equal to a
\* plaintext
Hash(password) == <<"$2a$">> \o password

\* bcrypt reads no more than the first 72 bytes of a password
maxBcryptLength == 72

\* the bytes of a password bcrypt reads
Truncated(password) ==
    IF Len(password) > maxBcryptLength
    THEN SubSeq(password, 1, maxBcryptLength)
    ELSE password

\* bcrypt.GenerateFromPassword([]byte(password), cost): the hash of the
\* password; given a password of more than 72 bytes it either returns an
\* error or hashes the first 72 bytes, depending on the version of
\* golang.org/x/crypto in the build
GenerateFromPassword(password) ==
    IF Len(Bytes(password)) > maxBcryptLength
    THEN {[err |-> errors_New("bcrypt: password length exceeds 72 bytes"),
           hash |-> <<>>],
          [err |-> Nil, hash |-> Hash(Truncated(Bytes(password)))]}
    ELSE {[err |-> Nil, hash |-> Hash(Bytes(password))]}

\* bcrypt.CompareHashAndPassword returns nil
CompareHashAndPassword(hash, password) ==
    hash = Hash(Truncated(Bytes(password)))

\* ------------------------------------------------------- storage adapter
\* The table users is a function from the ids present to their rows:
\* id is the primary key, email carries a UNIQUE constraint.

\* the database connection: "up", or the error every statement fails with
VARIABLE db

DbErrors == {"driver: bad connection", "context deadline exceeded"}

\* the error of the sqlx call
DbError == errors_New(db)

Min(S) == CHOOSE x \in S : \A y \in S : x <= y

\* A time.Time is a whole number of clock ticks; time.Now() has a finer
\* resolution than the microsecond of the TIMESTAMP WITH TIME ZONE columns.
TicksPerMicrosecond == 3

\* the value a timestamptz column keeps of t: the nearest whole microsecond
Timestamptz(t) ==
    ((2 * t + TicksPerMicrosecond) \div (2 * TicksPerMicrosecond))
        * TicksPerMicrosecond

\* the row the INSERT writes for the user
InsertedRow(user) ==
    [user EXCEPT !.created_at = Timestamptz(user.created_at),
                 !.updated_at = Timestamptz(user.updated_at)]

\* ORDER BY id ASC
RECURSIVE OrderByIdAsc(_)
OrderByIdAsc(ids) ==
    IF ids = {} THEN <<>>
    ELSE <<Min(ids)>> \o OrderByIdAsc(ids \ {Min(ids)})

\* a LIMIT that keeps the last n rows instead of the first n
Limit_Last(seq, n) ==
    SubSeq(seq, IF Len(seq) < n THEN 1 ELSE Len(seq) - n + 1, Len(seq))

\* LIMIT n
Limit(seq, n) == SubSeq(seq, 1, IF Len(seq) < n THEN Len(seq) ELSE n)

SelectRows(st, ids, limit) ==
    LET ordered == Limit(OrderByIdAsc(ids), limit)
    IN [i \in 1..Len(ordered) |-> st[ordered[i]]]

\* a SELECT whose sql.ErrNoRows is wrapped like any other driver error
Postgres_Get_NoRows(st, id) ==
    IF db # "up"
    THEN [err |-> Wrap("could not get user", DbError), user |-> NilUser]
    ELSE IF id \in DOMAIN st
    THEN [err |-> Nil, user |-> st[id]]
    ELSE [err |-> Wrap("could not get user",
                       errors_New("sql: no rows in result set")),
          user |-> NilUser]

Postgres_Get(st, id) ==
    IF db # "up"
    THEN [err |-> Wrap("could not get user", DbError), user |-> NilUser]
    ELSE IF id \in DOMAIN st
    THEN [err |-> Nil, user |-> st[id]]
    ELSE [err |-> Wrap("could not get user",
                       errors_New("repository.ErrUserNotFound")),
          user |-> NilUser]

\* a cursor comparison that includes the cursor row (id >= $1)
Postgres_GetAll_Inclusive(st, cursor, limit) ==
    IF cursor = EmptyID
    THEN [err |-> Nil, users |-> SelectRows(st, DOMAIN st, limit)]
    ELSE [err |-> Nil,
          users |-> SelectRows(st, {i \in DOMAIN st : i >= cursor}, limit)]

Postgres_GetAll(st, cursor, limit) ==
    IF db # "up"
    THEN [err |-> Wrap("could not get users", DbError), users |-> <<>>]
    ELSE IF cursor = EmptyID
    THEN [err |-> Nil, users |-> SelectRows(st, DOMAIN st, limit)]
    ELSE [err |-> Nil,
          users |-> SelectRows(st, {i \in DOMAIN st : i > cursor}, limit)]

Postgres_GetByCountry(st, country, cursor, limit) ==
    IF db # "up"
    THEN [err |-> Wrap("could not get users", DbError), users |-> <<>>]
    ELSE IF cursor = EmptyID
    THEN [err |-> Nil,
          users |-> SelectRows(st, {i \in DOMAIN st : st[i].country = country},
                               limit)]
    ELSE [err |-> Nil,
          users |-> SelectRows(st, {i \in DOMAIN st :
                                      st[i].country = country /\ i > cursor},
                               limit)]

\* error 23505 (unique_violation): primary key or UNIQUE(email)
UniqueViolation(st, user) ==
    \E i \in DOMAIN st : i # user.id /\ st[i].email = user.email

Postgres_Insert(st, user) ==
    IF db # "up"
    THEN [err |-> Wrap("could not insert user", DbError), store |-> st]
    ELSE IF user.id \in DOMAIN st \/ UniqueViolation(st, user)
    THEN [err |-> Wrap("could not insert user",
                       errors_New("repository.ErrDuplicateEmail")),
          store |-> st]
    ELSE [err |-> Nil,
          store |-> [i \in DOMAIN st \cup {user.id} |->
                        IF i = user.id THEN InsertedRow(user) ELSE st[i]]]

\* an UPDATE on a table whose email column has no UNIQUE constraint
Postgres_Update_NoUnique(st, user) ==
    IF user.id \notin DOMAIN st
    THEN [err |-> Wrap("could not update user",
                       errors_New("repository.ErrUserNotFound")),
          store |-> st]
    ELSE [err |-> Nil,
          store |-> [st EXCEPT ![user.id] =
                        [@ EXCEPT !.first_name = user.first_name,
                                  !.last_name = user.last_name,
                                  !.nickname = user.nickname,
                                  !.password = user.password,
                                  !.email = user.email,
                                  !.country = user.country,
                                  !.updated_at = Timestamptz(user.updated_at)]]]

\* an UPDATE that also sets created_at
Postgres_Update_FullRow(st, user) ==
    IF user.id \notin DOMAIN st
    THEN [err |-> Wrap("could not update user",
                       errors_New("repository.ErrUserNotFound")),
          store |-> st]
    ELSE IF UniqueViolation(st, user)
    THEN [err |-> Wrap("could not insert user",
                       errors_New("repository.ErrDuplicateEmail")),
          store |-> st]
    ELSE [err |-> Nil, store |-> [st EXCEPT ![user.id] = InsertedRow(user)]]

\* an UPDATE that inserts the row when the id is not in the table
Postgres_Update_Upsert(st, user) ==
    IF UniqueViolation(st, user)
    THEN [err |-> Wrap("could not insert user",
                       errors_New("repository.ErrDuplicateEmail")),
          store |-> st]
    ELSE [err |-> Nil,
          store |-> [i \in DOMAIN st \cup {user.id} |->
                        IF i = user.id THEN InsertedRow(user) ELSE st[i]]]

\* an UPDATE whose driver error is dropped
Postgres_Update_IgnoreError(st, user) ==
    IF db # "up" \/ user.id \notin DOMAIN st
    THEN [err |-> Nil, store |-> st]
    ELSE IF UniqueViolation(st, user)
    THEN [err |-> Wrap("could not insert user",
                       errors_New("repository.ErrDuplicateEmail")),
          store |-> st]
    ELSE [err |-> Nil,
          store |-> [st EXCEPT ![user.id] =
                        [@ EXCEPT !.first_name = user.first_name,
                                  !.last_name = user.last_name,
                                  !.nickname = user.nickname,
                                  !.password = user.password,
                                  !.email = user.email,
                                  !.country = user.country,
                                  !.updated_at = Timestamptz(user.updated_at)]]]

\* UPDATE ... SET every column but id and created_at ... WHERE id = :id
Postgres_Update(st, user) ==
    IF db # "up"
    THEN [err |-> Wrap("could not update user", DbError), store |-> st]
    ELSE IF user.id \notin DOMAIN st
    THEN [err |-> Wrap("could not update user",
                       errors_New("repository.ErrUserNotFound")),
          store |-> st]
    ELSE IF UniqueViolation(st, user)
    THEN [err |-> Wrap("could not insert user",
                       errors_New("repository.ErrDuplicateEmail")),
          store |-> st]
    ELSE [err |-> Nil,
          store |-> [st EXCEPT ![user.id] =
                        [@ EXCEPT !.first_name = user.first_name,
                                  !.last_name = user.last_name,
                                  !.nickname = user.nickname,
                                  !.password = user.password,
                                  !.email = user.email,
                                  !.country = user.country,
                                  !.updated_at = Timestamptz(user.updated_at)]]]

\* a DELETE that leaves the row in place
Postgres_Delete_Keep(st, id) ==
    [err |-> Nil, store |-> st, rows |-> IF id \in DOMAIN st THEN 1 ELSE 0]

\* DELETE FROM users WHERE id = $1: ExecContext reports no error when no
\* row matches; rows is the RowsAffected of the discarded sql.Result
Postgres_Delete(st, id) ==
    IF db # "up"
    THEN [err |-> Wrap("could not delete user", DbError), store |-> st,
          rows |-> 0]
    ELSE [err |-> Nil, store |-> [i \in DOMAIN st \ {id} |-> st[i]],
          rows |-> IF id \in DOMAIN st THEN 1 ELSE 0]

\* PingContext
Postgres_CheckDatabaseHealth ==
    IF db # "up" THEN Wrap("could not ping database", DbError) ELSE Nil

\* ---------------------------------------------------------- domain service
\* the liveness probe against the store connection
ServiceDefault_CheckServiceHealth ==
    IF Postgres_CheckDatabaseHealth # Nil
    THEN Wrap("could not check database health", Postgres_CheckDatabaseHealth)
    ELSE Nil

\* FilterParams: Country is a *string; present = FALSE models nil
NoFilter == [present |-> FALSE, country |-> <<>>]
CountryFilter(country) == [present |-> TRUE, country |-> country]

\* a normalisation that upper-cases without trimming
FilterParams_normalize_NoTrim(f) ==
    IF f.present
    THEN [f EXCEPT !.country = ToUpper(f.country)]
    ELSE f

FilterParams_normalize(f) ==
    IF f.present
    THEN [f EXCEPT !.country = ToUpper(TrimSpace(f.country))]
    ELSE f

FilterParams_validate(f) ==
    IF len(f.country) # countryCodeLength
    THEN Wrap("could not validate country input",
              errors_New("service.ErrCountryCodeInvalid"))
    ELSE Nil

ServiceDefault_Fetch(st, id) ==
    IF ~IsUUID(id)
    THEN [err |-> Wrap("could not validate id",
                       errors_New("service.ErrInvalidID")),
          user |-> NilUser, calls |-> <<>>]
    ELSE LET r == Postgres_Get(st, id)
         IN IF errors_Is(r.err, "repository.ErrUserNotFound")
            THEN [err |-> Wrap("could not fetch user with id",
                               errors_New("service.ErrUserNotFound")),
                  user |-> NilUser, calls |-> <<"repo.Get">>]
            ELSE IF r.err # Nil
            THEN [err |-> Wrap("could not fetch user with id", r.err),
                  user |-> NilUser, calls |-> <<"repo.Get">>]
            ELSE [err |-> Nil, user |-> newUserDomainFromStore(r.user),
                  calls |-> <<"repo.Get">>]

\* the arguments of the repository call FetchAll makes, if it makes one
NoArgs == [country |-> <<>>, cursor |-> EmptyID, limit |-> 0]

ServiceDefault_FetchAll(st, filter, pag) ==
    LET f == FilterParams_normalize(filter)
    IN IF f.present
       THEN IF FilterParams_validate(f) # Nil
            THEN [err |-> Wrap("could not validate fetch all filter",
                               FilterParams_validate(f)),
                  users |-> <<>>, calls |-> <<>>, args |-> NoArgs]
            ELSE LET r == Postgres_GetByCountry(st, f.country, pag.cursor,
                                                pag.limit)
                     a == [country |-> f.country, cursor |-> pag.cursor,
                           limit |-> pag.limit]
                 IN IF r.err # Nil
                    THEN [err |-> Wrap("could not fetch users by country",
                                       r.err),
                          users |-> <<>>, calls |-> <<"repo.GetByCountry">>,
                          args |-> a]
                    ELSE [err |-> Nil,
                          users |-> [i \in 1..Len(r.users) |->
                                        newUserDomainFromStore(r.users[i])],
                          calls |-> <<"repo.GetByCountry">>, args |-> a]
       ELSE LET r == Postgres_GetAll(st, pag.cursor, pag.limit)
                a == [country |-> <<>>, cursor |-> pag.cursor,
                      limit |-> pag.limit]
            IN IF r.err # Nil
               THEN [err |-> Wrap("could not fetch users", r.err),
                     users |-> <<>>, calls |-> <<"repo.GetAll">>, args |-> a]
               ELSE [err |-> Nil,
                     users |-> [i \in 1..Len(r.users) |->
                                   newUserDomainFromStore(r.users[i])],
                     calls |-> <<"repo.GetAll">>, args |-> a]

\* ------------------------------------------------------ requests, responses
NoReq ==
    [op |-> "none", id |-> EmptyID, first_name |-> <<>>, last_name |-> <<>>,
     nickname |-> <<>>, email |-> "", password |-> <<>>, country |-> <<>>,
     page_size |-> 0, page_token |-> EmptyID]

CreateUserRequest(first, last, nick, email, password, country) ==
    [NoReq EXCEPT !.op = "CreateUser", !.first_name = first, !.last_name = last,
                  !.nickname = nick, !.email = email, !.password = password,
                  !.country = country]

UpdateUserRequest(id, first, last, nick, email, password, country) ==
    [NoReq EXCEPT !.op = "UpdateUser", !.id = id, !.first_name = first,
                  !.last_name = last, !.nickname = nick, !.email = email,
                  !.password = password, !.country = country]

GetUserRequest(id) == [NoReq EXCEPT !.op = "GetUser", !.id = id]

DeleteUserRequest(id) == [NoReq EXCEPT !.op = "DeleteUser", !.id = id]

ListUsersRequest(country, page_size, page_token) ==
    [NoReq EXCEPT !.op = "ListUsers", !.country = country,
                  !.page_size = page_size, !.page_token = page_token]

NoResp ==
    [err |-> "none", code |-> "none", user |-> NilWireUser, users |-> <<>>,
     next_page_token |-> EmptyID]

\* (nil, err)
ErrResponse(err) ==
    [err |-> err, code |-> StatusCode(err), user |-> NilWireUser, users |-> <<>>,
     next_page_token |-> EmptyID]

\* CreateUserResponse / UpdateUserResponse / GetUserResponse
UserResponse(user) ==
    [err |-> "nil", code |-> "OK", user |-> newUserResponseFromDomain(user),
     users |-> <<>>, next_page_token |-> EmptyID]

ListUsersResponse(users, nextPageToken) ==
    [err |-> "nil", code |-> "OK", user |-> NilWireUser,
     users |-> [i \in 1..Len(users) |-> newUserResponseFromDomain(users[i])],
     next_page_token |-> nextPageToken]

DeleteUserResponse ==
    [err |-> "nil", code |-> "OK", user |-> NilWireUser, users |-> <<>>,
     next_page_token |-> EmptyID]

HealthCheckRequest == [NoReq EXCEPT !.op = "CheckHeath"]

\* (&HealthCheckResponse{Status: status}, nil)
HealthCheckResponse(status) ==
    [err |-> "nil", code |-> "OK", user |-> NilWireUser, users |-> <<>>,
     next_page_token |-> EmptyID, status |-> status]

\* ---------------------------------------------- transport: the read handlers
\* Each returns the response and the calls made below the transport.

\* a handler that hands the id to the service without validating it
GRPCServer_GetUser_Unvalidated(st, r) ==
    LET f == ServiceDefault_Fetch(st, r.id)
    IN IF f.err # Nil
       THEN [resp |-> ErrResponse(convertServiceError(f.err)),
             trace |-> <<"service.Fetch">> \o f.calls]
       ELSE [resp |-> UserResponse(f.user),
             trace |-> <<"service.Fetch">> \o f.calls]

GRPCServer_GetUser(st, r) ==
    IF validateID(r.id) # "nil"
    THEN [resp |-> ErrResponse(validateID(r.id)), trace |-> <<>>]
    ELSE LET f == ServiceDefault_Fetch(st, r.id)
         IN IF f.err # Nil
            THEN [resp |-> ErrResponse(convertServiceError(f.err)),
                  trace |-> <<"service.Fetch">> \o f.calls]
            ELSE [resp |-> UserResponse(f.user),
                  trace |-> <<"service.Fetch">> \o f.calls]

\* a health check that reports the error of the probe to its caller
GRPCServer_CheckHeath_Propagate ==
    IF ServiceDefault_CheckServiceHealth # Nil
    THEN ErrResponse(convertServiceError(ServiceDefault_CheckServiceHealth))
    ELSE HealthCheckResponse("SERVING")

GRPCServer_CheckHeath ==
    IF ServiceDefault_CheckServiceHealth # Nil
    THEN HealthCheckResponse("NOT_SERVING")
    ELSE HealthCheckResponse("SERVING")

\* a handler that forwards the requested page size as it is
PageSize_NoClamp(r) == r.page_size

\* the page size after the clamp of lines 146-148
PageSize(r) ==
    IF r.page_size <= 0 \/ r.page_size > defaultPageSize
    THEN defaultPageSize
    ELSE r.page_size

\* a token handed out with every non-empty page
NextPageToken_NonEmpty(users, pageSize) ==
    IF Len(users) > 0 THEN users[Len(users)].id ELSE EmptyID

\* a token that names the first user of a full page
NextPageToken_First(users, pageSize) ==
    IF Len(users) = pageSize THEN users[1].id ELSE EmptyID

NextPageToken(users, pageSize) ==
    IF Len(users) = pageSize THEN users[Len(users)].id ELSE EmptyID

GRPCServer_ListUsers(st, r) ==
    IF r.page_token # EmptyID /\ ~IsUUID(r.page_token)
    THEN [resp |-> ErrResponse("ErrPageTokenInvalid"), trace |-> <<>>]
    ELSE IF r.country # <<>> /\ len(r.country) # 2
    THEN [resp |-> ErrResponse("ErrCountryCodeInvalid"), trace |-> <<>>]
    ELSE LET filters == IF r.country # <<>> THEN CountryFilter(r.country)
                        ELSE NoFilter
             pagination == [limit |-> PageSize(r), cursor |-> r.page_token]
             f == ServiceDefault_FetchAll(st, filters, pagination)
         IN IF f.err # Nil
            THEN [resp |-> ErrResponse(convertServiceError(f.err)),
                  trace |-> <<"service.FetchAll">> \o f.calls]
            ELSE [resp |-> ListUsersResponse(f.users,
                                             NextPageToken(f.users, PageSize(r))),
                  trace |-> <<"service.FetchAll">> \o f.calls]

\* --------------------------------------------------------------- state
VARIABLES
    store,      \* table users: id -> row, for the ids present
    events,     \* the Publish calls made so far, in order
    now,        \* the wall clock read by time.Now()
    usedIds,    \* ids seen so far: returned by uuid.New() or named in a
                \* request; uuid.New() returns none of them again
    publisher,  \* "nil" without a publisher; "fakePubSub", whose Publish
                \* returns nil; "failingPubSub", whose Publish returns an error
    pc,         \* per worker: where its current request stands
    req,        \* per worker: the request being handled (or last handled)
    resp,       \* per worker: the response to its last finished request
    user,       \* per worker: the service.User the service is working on
    trace,      \* per worker: calls below the transport made for req
    trav,       \* a client paging through ListUsers
    svcErr      \* an error on its way up from the storage to the transport

vars == <<store, events, now, usedIds, publisher, pc, req, resp, user, trace,
          trav, db, svcErr>>

\* ------------------------------------------------------ the paging client
NoTrav ==
    [active |-> FALSE, done |-> FALSE, country |-> <<>>, page_size |-> 0,
     cursor |-> EmptyID, seen |-> <<>>, calls |-> 0, dirty |-> FALSE,
     stable |-> {}, err |-> "nil", token |-> EmptyID]

\* a write to the table: dirty records that the table changed since the
\* traversal began, stable the users present throughout the traversal
TravObserve(t, st2) ==
    IF t.active
    THEN [t EXCEPT !.dirty = @ \/ (st2 # store),
                   !.stable = IF t.done THEN @ ELSE @ \cap DOMAIN st2]
    ELSE t

\* ------------------------------------------------------- worker helpers
Rest == {"idle", "done"}

InFlight == {q \in Procs : pc[q] \notin Rest}

\* every mutation in flight publishes at most one event
MaxEvents == 3
CanStart == Len(events) + Cardinality(InFlight) < MaxEvents

Finish(p, response) ==
    /\ resp' = [resp EXCEPT ![p] = response]
    /\ pc' = [pc EXCEPT ![p] = "done"]

\* ids uuid.New() has generated for rows that are not inserted yet: no
\* client has seen them
Pending == {user[q].id : q \in {w \in Procs : pc[w] = "Create.Insert"}}

\* a request names the id: it is not a random UUID nobody has seen yet, and
\* a random UUID generated later differs from it
Mention(id) ==
    /\ id \notin Pending
    /\ usedIds' = usedIds \cup ({id} \cap UUIDs)

\* a publish that is tried a second time when it fails
Publish_Retry(p, event, data) ==
    IF publisher = "failingPubSub"
    THEN /\ events' = events \o <<[event |-> event, data |-> data],
                                  [event |-> event, data |-> data]>>
         /\ trace' = [trace EXCEPT ![p] = @ \o <<"Publish", "Publish">>]
    ELSE IF publisher # "nil"
    THEN /\ events' = Append(events, [event |-> event, data |-> data])
         /\ trace' = [trace EXCEPT ![p] = Append(@, "Publish")]
    ELSE UNCHANGED <<events, trace>>

\* s.publisher.Publish(event, data), its result discarded
Publish(p, event, data) ==
    IF publisher # "nil"
    THEN /\ events' = Append(events, [event |-> event, data |-> data])
         /\ trace' = [trace EXCEPT ![p] = Append(@, "Publish")]
    ELSE UNCHANGED <<events, trace>>

\* ------------------------------------------------------------ CreateUser
\* transport validation, then the part of service.Create before the insert:
\* id is the value of uuid.New(), dt the time between the two time.Now() calls
CreateUser(p, r, id, dt) ==
    /\ pc[p] \in Rest
    /\ r.op = "CreateUser"
    /\ req' = [req EXCEPT ![p] = r]
    /\ IF validateCreateUserRequest(r) # "nil"
       THEN /\ Finish(p, ErrResponse(validateCreateUserRequest(r)))
            /\ trace' = [trace EXCEPT ![p] = <<>>]
            /\ user' = [user EXCEPT ![p] = NilUser]
            /\ UNCHANGED <<store, events, now, usedIds, publisher, db, svcErr,
                           trav>>
       ELSE /\ id \in UUIDs \ usedIds
            /\ now + dt <= MaxClock
            /\ CanStart
            /\ usedIds' = usedIds \cup {id}
            /\ now' = now + dt
            /\ trace' = [trace EXCEPT ![p] = <<"service.Create">>]
            /\ \E h \in GenerateFromPassword(r.password) :
                  IF h.err # Nil
                  THEN /\ Finish(p, ErrResponse(convertServiceError(
                                    errors_New("could not hash password"))))
                       /\ user' = [user EXCEPT ![p] =
                             [id |-> id, first_name |-> r.first_name,
                              last_name |-> r.last_name,
                              nickname |-> r.nickname,
                              password |-> r.password,
                              email |-> r.email, country |-> r.country,
                              created_at |-> now, updated_at |-> now + dt]]
                  ELSE /\ user' = [user EXCEPT ![p] =
                             [id |-> id, first_name |-> r.first_name,
                              last_name |-> r.last_name,
                              nickname |-> r.nickname,
                              password |-> h.hash,
                              email |-> r.email, country |-> r.country,
                              created_at |-> now, updated_at |-> now + dt]]
                       /\ pc' = [pc EXCEPT ![p] = "Create.Insert"]
                       /\ resp' = [resp EXCEPT ![p] = NoResp]
            /\ UNCHANGED <<store, events, publisher, db, svcErr, trav>>

\* repo.Insert and the mapping of its error
Create_Insert(p) ==
    /\ pc[p] = "Create.Insert"
    /\ LET ins == Postgres_Insert(store, newUserStoreFromDomain(user[p]))
       IN /\ trace' = [trace EXCEPT ![p] = Append(@, "repo.Insert")]
          /\ IF errors_Is(ins.err, "repository.ErrDuplicateEmail")
             THEN /\ Finish(p, ErrResponse(convertServiceError(
                               Wrap("could not insert user",
                                    errors_New("service.ErrUserAlreadyExists")))))
                  /\ UNCHANGED <<store, trav>>
             ELSE IF ins.err # Nil
             THEN /\ Finish(p, ErrResponse(convertServiceError(
                               Wrap("could not insert user", ins.err))))
                  /\ UNCHANGED <<store, trav>>
             ELSE /\ store' = ins.store
                  /\ trav' = TravObserve(trav, ins.store)
                  /\ pc' = [pc EXCEPT ![p] = "Create.Publish"]
                  /\ UNCHANGED resp
    /\ UNCHANGED <<events, now, usedIds, publisher, db, svcErr, req, user>>

\* the publish of user.created and the response
Create_Publish(p) ==
    /\ pc[p] = "Create.Publish"
    /\ Publish(p, "user.created", user[p].id)
    /\ Finish(p, UserResponse(user[p]))
    /\ UNCHANGED <<store, now, usedIds, publisher, db, svcErr, req, user, trav>>

\* ------------------------------------------------------------ UpdateUser
UpdateUser(p, r) ==
    /\ pc[p] \in Rest
    /\ r.op = "UpdateUser"
    /\ req' = [req EXCEPT ![p] = r]
    /\ IF validateUpdateUserRequest(r) # "nil"
       THEN /\ Finish(p, ErrResponse(validateUpdateUserRequest(r)))
            /\ trace' = [trace EXCEPT ![p] = <<>>]
            /\ user' = [user EXCEPT ![p] = NilUser]
       ELSE /\ CanStart
            /\ trace' = [trace EXCEPT ![p] = <<"service.Update">>]
            /\ \E h \in GenerateFromPassword(r.password) :
                  IF h.err # Nil
                  THEN /\ Finish(p, ErrResponse(convertServiceError(
                                    errors_New("could not hash password"))))
                       /\ user' = [user EXCEPT ![p] =
                             [id |-> r.id, first_name |-> r.first_name,
                              last_name |-> r.last_name,
                              nickname |-> r.nickname,
                              password |-> r.password,
                              email |-> r.email, country |-> r.country,
                              created_at |-> 0, updated_at |-> now]]
                  ELSE /\ user' = [user EXCEPT ![p] =
                             [id |-> r.id, first_name |-> r.first_name,
                              last_name |-> r.last_name,
                              nickname |-> r.nickname,
                              password |-> h.hash,
                              email |-> r.email, country |-> r.country,
                              created_at |-> 0, updated_at |-> now]]
                       /\ pc' = [pc EXCEPT ![p] = "Update.Update"]
                       /\ resp' = [resp EXCEPT ![p] = NoResp]
    /\ Mention(r.id)
    /\ UNCHANGED <<store, events, now, publisher, db, svcErr, trav>>

Update_Update(p) ==
    /\ pc[p] = "Update.Update"
    /\ LET upd == Postgres_Update(store, newUserStoreFromDomain(user[p]))
       IN /\ trace' = [trace EXCEPT ![p] = Append(@, "repo.Update")]
          /\ IF errors_Is(upd.err, "repository.ErrUserNotFound")
             THEN /\ Finish(p, ErrResponse(convertServiceError(
                               Wrap("could not update user",
                                    errors_New("service.ErrUserNotFound")))))
                  /\ UNCHANGED <<store, trav>>
             ELSE IF errors_Is(upd.err, "repository.ErrDuplicateEmail")
             THEN /\ Finish(p, ErrResponse(convertServiceError(
                               Wrap("could not update user",
                                    errors_New("service.ErrUserAlreadyExists")))))
                  /\ UNCHANGED <<store, trav>>
             ELSE IF upd.err # Nil
             THEN /\ Finish(p, ErrResponse(convertServiceError(
                               Wrap("could not update user", upd.err))))
                  /\ UNCHANGED <<store, trav>>
             ELSE /\ store' = upd.store
                  /\ trav' = TravObserve(trav, upd.store)
                  /\ pc' = [pc EXCEPT ![p] = "Update.Publish"]
                  /\ UNCHANGED resp
    /\ UNCHANGED <<events, now, usedIds, publisher, db, svcErr, req, user>>

Update_Publish(p) ==
    /\ pc[p] = "Update.Publish"
    /\ Publish(p, "user.updated", user[p].id)
    /\ Finish(p, UserResponse(user[p]))
    /\ UNCHANGED <<store, now, usedIds, publisher, db, svcErr, req, user, trav>>

\* ------------------------------------------------------------ DeleteUser
\* transport validation, service.Delete up to and including repo.Delete;
\* the trace entry of repo.Delete carries the number of rows it removed
DeleteUser(p, r) ==
    /\ pc[p] \in Rest
    /\ r.op = "DeleteUser"
    /\ req' = [req EXCEPT ![p] = r]
    /\ user' = [user EXCEPT ![p] = NilUser]
    /\ IF validateID(r.id) # "nil"
       THEN /\ Finish(p, ErrResponse(validateID(r.id)))
            /\ trace' = [trace EXCEPT ![p] = <<>>]
            /\ UNCHANGED <<store, trav>>
       ELSE IF ~IsUUID(r.id)
       THEN /\ Finish(p, ErrResponse(convertServiceError(
                         Wrap("could not validate id",
                              errors_New("service.ErrInvalidID")))))
            /\ trace' = [trace EXCEPT ![p] = <<"service.Delete">>]
            /\ UNCHANGED <<store, trav>>
       ELSE /\ CanStart
            /\ LET del == Postgres_Delete(store, r.id)
               IN /\ trace' = [trace EXCEPT ![p] =
                        <<"service.Delete",
                          IF del.rows = 0 THEN "repo.Delete:0"
                          ELSE "repo.Delete:1">>]
                  /\ IF errors_Is(del.err, "repository.ErrUserNotFound")
                     THEN /\ Finish(p, DeleteUserResponse)
                          /\ UNCHANGED <<store, trav>>
                     ELSE IF del.err # Nil
                     THEN /\ Finish(p, ErrResponse(convertServiceError(
                                       Wrap("could not delete user with id",
                                            del.err))))
                          /\ UNCHANGED <<store, trav>>
                     ELSE /\ store' = del.store
                          /\ trav' = TravObserve(trav, del.store)
                          /\ pc' = [pc EXCEPT ![p] = "Delete.Publish"]
                          /\ resp' = [resp EXCEPT ![p] = NoResp]
    /\ Mention(r.id)
    /\ UNCHANGED <<events, now, publisher, db, svcErr>>

Delete_Publish(p) ==
    /\ pc[p] = "Delete.Publish"
    /\ Publish(p, "user.deleted", req[p].id)
    /\ Finish(p, DeleteUserResponse)
    /\ UNCHANGED <<store, now, usedIds, publisher, db, svcErr, req, user, trav>>

\* ------------------------------------------------------ GetUser, ListUsers
GetUser(p, r) ==
    /\ pc[p] \in Rest
    /\ r.op = "GetUser"
    /\ req' = [req EXCEPT ![p] = r]
    /\ user' = [user EXCEPT ![p] = NilUser]
    /\ Finish(p, GRPCServer_GetUser(store, r).resp)
    /\ trace' = [trace EXCEPT ![p] = GRPCServer_GetUser(store, r).trace]
    /\ Mention(r.id)
    /\ UNCHANGED <<store, events, now, publisher, db, svcErr, trav>>

ListUsers(p, r) ==
    /\ pc[p] \in Rest
    /\ r.op = "ListUsers"
    /\ req' = [req EXCEPT ![p] = r]
    /\ user' = [user EXCEPT ![p] = NilUser]
    /\ Finish(p, GRPCServer_ListUsers(store, r).resp)
    /\ trace' = [trace EXCEPT ![p] = GRPCServer_ListUsers(store, r).trace]
    /\ Mention(r.page_token)
    /\ UNCHANGED <<store, events, now, publisher, db, svcErr, trav>>

\* a direct call of ServiceDefault.FetchAll, as the tests of the service make
\* it: the request records the arguments, svcErr the returned error, the
\* response the returned users
FetchAllCall(filter, pag) ==
    [op |-> "FetchAll", id |-> EmptyID, first_name |-> <<>>, last_name |-> <<>>,
     nickname |-> <<>>, email |-> "", password |-> <<>>,
     country |-> filter.country, page_size |-> pag.limit,
     page_token |-> pag.cursor, present |-> filter.present]

FetchAll(p, filter, pag) ==
    /\ pc[p] \in Rest
    /\ req' = [req EXCEPT ![p] = FetchAllCall(filter, pag)]
    /\ user' = [user EXCEPT ![p] = NilUser]
    /\ LET f == ServiceDefault_FetchAll(store, filter, pag)
       IN /\ svcErr' = f.err
          /\ trace' = [trace EXCEPT ![p] = f.calls]
          /\ Finish(p, [NoResp EXCEPT !.users =
                           [i \in 1..Len(f.users) |->
                               newUserResponseFromDomain(f.users[i])]])
    /\ Mention(pag.cursor)
    /\ UNCHANGED <<store, events, now, publisher, db, trav>>

CheckHeath(p) ==
    /\ pc[p] \in Rest
    /\ req' = [req EXCEPT ![p] = HealthCheckRequest]
    /\ user' = [user EXCEPT ![p] = NilUser]
    /\ Finish(p, GRPCServer_CheckHeath)
    /\ trace' = [trace EXCEPT ![p] = <<"service.CheckServiceHealth",
                                       "repo.CheckDatabaseHealth">>]
    /\ UNCHANGED <<store, events, now, usedIds, publisher, db, svcErr, trav>>

\* the connection to the database breaks, stalls or comes back
Connection(conn) ==
    /\ db # conn
    /\ db' = conn
    /\ UNCHANGED <<store, events, now, usedIds, publisher, svcErr, pc, req,
                   resp, user, trace, trav>>

\* time passes
Tick ==
    /\ now < MaxClock
    /\ now' = now + 1
    /\ UNCHANGED <<store, events, usedIds, publisher, db, svcErr, pc, req, resp,
                   user, trace, trav>>

\* ----------------------------------------------------- the paging client
\* The client starts a traversal with an empty page token and then asks for
\* the page after the last user it was given, until a page comes back empty.
TravStart(country, page_size) ==
    /\ ~trav.active
    /\ trav' = [NoTrav EXCEPT !.active = TRUE, !.country = country,
                              !.page_size = page_size,
                              !.stable = DOMAIN store]
    /\ UNCHANGED <<store, events, now, usedIds, publisher, db, svcErr, pc, req,
                   resp, user, trace>>

TravNext ==
    /\ trav.active /\ ~trav.done
    /\ LET out == GRPCServer_ListUsers(store,
                     ListUsersRequest(trav.country, trav.page_size, trav.cursor))
           page == out.resp.users
       IN trav' =
            IF out.resp.err # "nil"
            THEN [trav EXCEPT !.done = TRUE, !.err = out.resp.err,
                              !.calls = @ + 1]
            ELSE IF page = <<>>
            THEN [trav EXCEPT !.done = TRUE, !.calls = @ + 1,
                              !.token = out.resp.next_page_token]
            ELSE [trav EXCEPT !.seen = @ \o [i \in 1..Len(page) |-> page[i].id],
                              !.cursor = page[Len(page)].id,
                              !.calls = @ + 1,
                              !.token = out.resp.next_page_token]
    /\ UNCHANGED <<store, events, now, usedIds, publisher, db, svcErr, pc, req,
                   resp, user, trace>>

\* ------------------------------------------------------------- inputs
NameOK == <<"b", "a">>
PasswordOK == <<"a", "a", "a", "a", "a", "a", "1", "@">>
US == <<"U", "S">>
BR == <<"B", "R">>
us == <<"u", "s">>

IdInputs == UUIDs \cup {EmptyID, MalformedID}

\* the state after main(): an empty table; pub is the configured publisher
InitEnv(pub, conn) ==
    /\ store = <<>>
    /\ events = <<>>
    /\ now = TicksPerMicrosecond
    /\ usedIds = {}
    /\ publisher = pub
    /\ db = conn
    /\ svcErr = Nil
    /\ pc = [p \in Procs |-> "idle"]
    /\ req = [p \in Procs |-> NoReq]
    /\ resp = [p \in Procs |-> NoResp]
    /\ user = [p \in Procs |-> NilUser]
    /\ trace = [p \in Procs |-> <<>>]
    /\ trav = NoTrav

\* the database is reachable
InitWith(pub) == InitEnv(pub, "up")

\* --------------------------------------------------------------------------
\* SpecPage: a client pages through ListUsers while one worker creates and
\* deletes users.  Every created user has an email of its own.
PageEmails == <<"a@x", "b@x", "c@x", "d@x", "e@x">>
EmailOf(i) == PageEmails[((i - 1) % Len(PageEmails)) + 1]

PageSizes == {1, 2}
PageFilters == {<<>>, us}

InitPage == InitWith("nil")

NextPage ==
    \/ \E id \in UUIDs, c \in {US, BR} :
          CreateUser(1, CreateUserRequest(NameOK, NameOK, NameOK, EmailOf(id),
                                          PasswordOK, c), id, 0)
    \/ Create_Insert(1)
    \/ Create_Publish(1)
    \/ \E i \in UUIDs : DeleteUser(1, DeleteUserRequest(i))
    \/ Delete_Publish(1)
    \/ \E c \in PageFilters, n \in PageSizes : TravStart(c, n)
    \/ TravNext

SpecPage == InitPage /\ [][NextPage]_vars

\* ------------------------------------------------------ paging properties
Range(seq) == {seq[i] : i \in 1..Len(seq)}

StrictlyAscending(seq) == \A i \in 1..(Len(seq) - 1) : seq[i] < seq[i + 1]

\* the ids of the stored users a listing with this country filter is about
Matching(st, country) ==
    IF country = <<>> THEN DOMAIN st
    ELSE {i \in DOMAIN st : st[i].country = ToUpper(TrimSpace(country))}

\* C1: over a table that is not modified, following the cursor returns the
\* stored users in strictly ascending id order without overlap or omission:
\* after each call the client has seen exactly the users up to its cursor,
\* and all of them once the traversal is over.
C1_NoOverlapNoOmission ==
    (trav.active /\ ~trav.dirty /\ trav.err = "nil") =>
        /\ StrictlyAscending(trav.seen)
        /\ Range(trav.seen) =
              {i \in Matching(store, trav.country) : i <= trav.cursor}
        /\ trav.done => Range(trav.seen) = Matching(store, trav.country)

C1_Witness ==
    /\ trav.done /\ ~trav.dirty /\ trav.err = "nil"
    /\ trav.page_size = 1
    /\ Len(trav.seen) >= 3

\* C2: with creates and deletes going on during the traversal, no user is
\* returned twice, ids stay strictly ascending across pages, and every user
\* that was in the table from the start to the end of the traversal has been
\* returned.
C2_StableUnderWrites ==
    (trav.active /\ trav.err = "nil") =>
        /\ StrictlyAscending(trav.seen)
        /\ trav.done =>
              (trav.stable \cap Matching(store, trav.country))
                  \subseteq Range(trav.seen)

C2_Witness ==
    /\ trav.done /\ trav.dirty /\ trav.err = "nil"
    /\ trav.calls >= 3
    /\ Cardinality(trav.stable) >= 2
    /\ Range(trav.seen) # DOMAIN store

\* --------------------------------------------------------------------------
\* SpecToken: one worker creates, deletes and lists users, one request after
\* the other, so that a finished ListUsers response describes the table as
\* it still is.
TokenRequests ==
    {ListUsersRequest(c, n, t) :
        c \in {<<>>, us, <<"U", " ">>},
        n \in {0, 1, 2, defaultPageSize + 1},
        t \in {EmptyID, 1, 2, MalformedID}}

NextToken ==
    \/ \E id \in UUIDs, c \in {US, BR} :
          CreateUser(1, CreateUserRequest(NameOK, NameOK, NameOK, EmailOf(id),
                                          PasswordOK, c), id, 0)
    \/ Create_Insert(1)
    \/ Create_Publish(1)
    \/ \E i \in UUIDs : DeleteUser(1, DeleteUserRequest(i))
    \/ Delete_Publish(1)
    \/ \E r \in TokenRequests : ListUsers(1, r)

SpecToken == InitPage /\ [][NextToken]_vars

EffectivePageSize(n) == IF n <= 0 \/ n > 100 THEN 100 ELSE n

\* C3: next_page_token is the id of the last returned user exactly when the
\* page holds as many users as the effective page size, it is empty in every
\* other case, and an empty token means no user follows the returned page.
C3_NextPageToken ==
    \A p \in Procs :
        (pc[p] = "done" /\ req[p].op = "ListUsers") =>
            LET out == resp[p]
                n == Len(out.users)
                full == out.err = "nil"
                        /\ n = EffectivePageSize(req[p].page_size)
                after == IF n = 0 THEN req[p].page_token ELSE out.users[n].id
            IN /\ full => /\ out.next_page_token # EmptyID
                          /\ out.next_page_token = out.users[n].id
               /\ ~full => out.next_page_token = EmptyID
               /\ (out.err = "nil" /\ out.next_page_token = EmptyID) =>
                     ~\E i \in Matching(store, req[p].country) : i > after

C3_Witness ==
    /\ pc[1] = "done" /\ req[1].op = "ListUsers"
    /\ req[1].page_size = 2 /\ req[1].page_token = 1
    /\ resp[1].err = "nil"
    /\ Len(resp[1].users) = 2
    /\ resp[1].next_page_token = 3

\* --------------------------------------------------------------------------
\* SpecEmail: two workers create, update and delete users concurrently, with
\* two emails to compete for.
Emails == {"a@x", "b@x"}

NextEmail ==
    \/ \E p \in Procs, e \in Emails, id \in UUIDs :
          CreateUser(p, CreateUserRequest(NameOK, NameOK, NameOK, e,
                                          PasswordOK, US), id, 0)
    \/ \E p \in Procs : Create_Insert(p)
    \/ \E p \in Procs : Create_Publish(p)
    \/ \E p \in Procs, i \in UUIDs, e \in Emails :
          UpdateUser(p, UpdateUserRequest(i, NameOK, NameOK, NameOK, e,
                                          PasswordOK, US))
    \/ \E p \in Procs : Update_Update(p)
    \/ \E p \in Procs : Update_Publish(p)
    \/ \E p \in {2}, i \in UUIDs : DeleteUser(p, DeleteUserRequest(i))
    \/ \E p \in Procs : Delete_Publish(p)

SpecEmail == InitPage /\ [][NextEmail]_vars

UniqueEmails ==
    \A i, j \in DOMAIN store : i # j => store[i].email # store[j].email

\* worker p is about to run an INSERT or an UPDATE that would give a second
\* row an email another row holds
WouldDuplicate(p) ==
    /\ \/ pc[p] = "Create.Insert"
       \/ pc[p] = "Update.Update" /\ user[p].id \in DOMAIN store
    /\ \E i \in DOMAIN store :
          i # user[p].id /\ store[i].email = user[p].email

\* C4: no two stored users ever have the same email, and a Create or an
\* Update that would give a second row an email held by another row fails
\* with AlreadyExists and leaves the table as it was.
C4_EmailUnique ==
    /\ []UniqueEmails
    /\ [][\A p \in Procs :
            (WouldDuplicate(p) /\ pc'[p] # pc[p]) =>
                /\ pc'[p] = "done"
                /\ resp'[p].err = "ErrUserAlreadyExists"
                /\ resp'[p].code = "AlreadyExists"
                /\ store' = store]_vars

C4_Witness ==
    \E p \in Procs :
        /\ pc[p] = "done" /\ req[p].op = "UpdateUser"
        /\ resp[p].code = "AlreadyExists"
        /\ req[p].id \in DOMAIN store
        /\ Cardinality(DOMAIN store) >= 2
        /\ pc[3 - p] = "Create.Publish"

\* --------------------------------------------------------------------------
\* SpecRace: each of the two workers handles one CreateUser request; the
\* service publishes to the publisher main() configures.
Init == InitWith("fakePubSub")

NextRace ==
    \/ \E p \in Procs, e \in Emails, c \in {US, BR}, id \in UUIDs :
          /\ pc[p] = "idle"
          /\ CreateUser(p, CreateUserRequest(NameOK, NameOK, NameOK, e,
                                             PasswordOK, c), id, 0)
    \/ \E p \in Procs : Create_Insert(p)
    \/ \E p \in Procs : Create_Publish(p)

SpecRace == Init /\ [][NextRace]_vars

RowsWithEmail(e) == {i \in DOMAIN store : store[i].email = e}

CreatedEvents(ids) ==
    {k \in 1..Len(events) :
        events[k].event = "user.created" /\ events[k].data \in ids}

\* C5: when two Create requests with the same email have run concurrently,
\* exactly one succeeded and the other got AlreadyExists, exactly one row
\* has that email, and exactly one user.created event was published for it.
C5_ConcurrentCreate ==
    \A p, q \in Procs :
        (/\ p # q
         /\ pc[p] = "done" /\ pc[q] = "done"
         /\ req[p].op = "CreateUser" /\ req[q].op = "CreateUser"
         /\ req[p].email = req[q].email) =>
            /\ \/ resp[p].code = "OK" /\ resp[q].code = "AlreadyExists"
               \/ resp[q].code = "OK" /\ resp[p].code = "AlreadyExists"
            /\ resp[q].code = "AlreadyExists" =>
                  /\ resp[q].err = "ErrUserAlreadyExists"
                  /\ RowsWithEmail(req[p].email) = {resp[p].user.id}
                  /\ Cardinality(CreatedEvents(UUIDs)) = 1
                  /\ CreatedEvents({resp[p].user.id}) # {}

C5_Witness ==
    /\ pc[1] = "done" /\ pc[2] = "done"
    /\ req[1].email = req[2].email
    /\ resp[1].code = "AlreadyExists" /\ resp[2].code = "OK"
    /\ user[1].id < user[2].id
    /\ Len(events) = 1

\* --------------------------------------------------------------------------
\* SpecDelete: two workers create, delete and fetch users concurrently; the
\* service publishes to the publisher main() configures.
NextDelete ==
    \/ \E p \in {1}, id \in UUIDs :
          CreateUser(p, CreateUserRequest(NameOK, NameOK, NameOK, EmailOf(id),
                                          PasswordOK, US), id, 0)
    \/ \E p \in Procs : Create_Insert(p)
    \/ \E p \in Procs : Create_Publish(p)
    \/ \E p \in Procs, i \in UUIDs : DeleteUser(p, DeleteUserRequest(i))
    \/ \E p \in Procs : Delete_Publish(p)
    \/ \E p \in {2}, i \in UUIDs : GetUser(p, GetUserRequest(i))

SpecDelete == Init /\ [][NextDelete]_vars

\* worker p has a finished DeleteUser request that returned no error
Deleted(p) ==
    pc[p] = "done" /\ req[p].op = "DeleteUser" /\ resp[p].code = "OK"

\* C6: once Delete(id) has succeeded, a Fetch of id gets NotFound; a Delete
\* of a well-formed id that is not in the table (a second Delete among them)
\* leaves the table unchanged and returns no error.
C6_DeleteIdempotent ==
    /\ [](\A p \in Procs :
            /\ Deleted(p) =>
                  LET get == GRPCServer_GetUser(store, GetUserRequest(req[p].id))
                  IN /\ get.resp.err = "ErrUserNotFound"
                     /\ get.resp.code = "NotFound"
            /\ (pc[p] = "done" /\ req[p].op = "DeleteUser"
                /\ IsUUID(req[p].id)) => resp[p] = DeleteUserResponse)
    /\ [][\A p \in Procs :
            (/\ pc[p] \in Rest /\ pc'[p] = "Delete.Publish"
             /\ req'[p].id \notin DOMAIN store) => store' = store]_vars

C6_Witness ==
    /\ Deleted(1) /\ req[1].id = 2
    /\ "repo.Delete:0" \in Range(trace[1])
    /\ \E k \in 1..Len(events) : events[k] = [event |-> "user.created", data |-> 2]
    /\ pc[2] = "done" /\ req[2] = GetUserRequest(2)
    /\ resp[2].code = "NotFound"

\* C7: a Delete that removed no row publishes nothing and returns success
C7_DeleteEventOnlyWhenRemoved ==
    \A p \in Procs :
        (req[p].op = "DeleteUser" /\ "repo.Delete:0" \in Range(trace[p])) =>
            /\ "Publish" \notin Range(trace[p])
            /\ pc[p] = "done"
            /\ resp[p] = DeleteUserResponse

\* --------------------------------------------------------------------------
\* SpecValid: worker 1 sends requests of all five kinds, acceptable ones and
\* ones with a missing or malformed field; worker 2 creates users
\* meanwhile. The service has a publisher.
Valid(id) == UpdateUserRequest(id, NameOK, NameOK, NameOK, "a@x",
                               PasswordOK, US)

CreateRequests ==
    {[Valid(EmptyID) EXCEPT !.op = "CreateUser"],
     [Valid(EmptyID) EXCEPT !.op = "CreateUser", !.first_name = <<>>],
     [Valid(EmptyID) EXCEPT !.op = "CreateUser", !.nickname = <<"a", "1">>],
     [Valid(EmptyID) EXCEPT !.op = "CreateUser", !.last_name = <<"a">>],
     [Valid(EmptyID) EXCEPT !.op = "CreateUser", !.email = "bad"],
     [Valid(EmptyID) EXCEPT !.op = "CreateUser", !.email = ""],
     [Valid(EmptyID) EXCEPT !.op = "CreateUser", !.password = <<"a", "1", "@">>],
     [Valid(EmptyID) EXCEPT !.op = "CreateUser", !.password = Rep("a", 8)],
     [Valid(EmptyID) EXCEPT !.op = "CreateUser", !.country = <<>>],
     [Valid(EmptyID) EXCEPT !.op = "CreateUser", !.country = <<"U">>]}

UpdateRequests ==
    {Valid(i) : i \in {1, EmptyID, MalformedID}}
        \cup {[Valid(1) EXCEPT !.email = "b@x", !.country = <<"U", "S", "A">>],
              [Valid(1) EXCEPT !.password = <<>>]}

ListRequests ==
    {ListUsersRequest(<<>>, 1, EmptyID), ListUsersRequest(<<>>, 1, MalformedID),
     ListUsersRequest(<<"U">>, 0, EmptyID), ListUsersRequest(US, 0, 1),
     ListUsersRequest(<<" ", " ">>, 1, EmptyID)}

NextValid ==
    \/ \E r \in CreateRequests, id \in {1, 3} : CreateUser(1, r, id, 0)
    \/ \E r \in UpdateRequests : UpdateUser(1, r)
    \/ \E id \in {1, EmptyID, MalformedID} : DeleteUser(1, DeleteUserRequest(id))
    \/ \E id \in {1, EmptyID, MalformedID} : GetUser(1, GetUserRequest(id))
    \/ \E r \in ListRequests : ListUsers(1, r)
    \/ \E id \in {2} :
          CreateUser(2, CreateUserRequest(NameOK, NameOK, NameOK, "b@x",
                                          PasswordOK, BR), id, 0)
    \/ \E p \in Procs : Create_Insert(p)
    \/ \E p \in Procs : Create_Publish(p)
    \/ Update_Update(1)
    \/ Update_Publish(1)
    \/ Delete_Publish(1)

SpecValid == Init /\ [][NextValid]_vars

\* the transport validator of the request's handler rejects it
Rejected(r) ==
    CASE r.op = "CreateUser" -> validateCreateUserRequest(r) # "nil"
      [] r.op = "UpdateUser" -> validateUpdateUserRequest(r) # "nil"
      [] r.op \in {"GetUser", "DeleteUser"} -> validateID(r.id) # "nil"
      [] r.op = "ListUsers" ->
            \/ r.page_token # EmptyID /\ ~IsUUID(r.page_token)
            \/ r.country # <<>> /\ Len(r.country) # 2
      [] OTHER -> FALSE

\* worker p takes the step and ends it with a rejected request answered
Rejects(p) ==
    /\ pc[p] \in Rest /\ pc'[p] = "done"
    /\ Rejected(req'[p])
    /\ \A q \in Procs \ {p} : pc'[q] = pc[q]

\* C8: a request its transport validator rejects is answered with the
\* validation error in the same step, with no call to the Domain Service or
\* the storage; that step changes neither the table nor the published events.
C8_FailFast ==
    /\ [](\A p \in Procs :
            (pc[p] # "idle" /\ Rejected(req[p])) =>
                /\ pc[p] = "done"
                /\ trace[p] = <<>>
                /\ resp[p].err # "nil"
                /\ resp[p].user = NilWireUser /\ resp[p].users = <<>>)
    /\ [][\A p \in Procs :
            Rejects(p) => store' = store /\ events' = events]_vars

C8_Witness ==
    /\ pc[1] = "done" /\ req[1] = DeleteUserRequest(MalformedID)
    /\ resp[1].err = "ErrIDFormat" /\ trace[1] = <<>>
    /\ DOMAIN store = {1, 2}
    /\ pc[2] = "Create.Publish" /\ user[2].id = 2
    /\ Len(events) = 1

\* --------------------------------------------------------------------------
\* SpecCountry: one worker creates and updates users with country codes in
\* several spellings and lists them; no publisher.
Countries == {US, us, <<" ", "U">>}

NextCountry ==
    \/ \E id \in UUIDs, c \in Countries :
          CreateUser(1, CreateUserRequest(NameOK, NameOK, NameOK, EmailOf(id),
                                          PasswordOK, c), id, 0)
    \/ \E id \in UUIDs, c \in {BR, <<"b", "r">>} :
          UpdateUser(1, UpdateUserRequest(id, NameOK, NameOK, NameOK,
                                          EmailOf(id), PasswordOK, c))
    \/ \E c \in {<<>>, US, us} : ListUsers(1, ListUsersRequest(c, 1, EmptyID))
    \/ Create_Insert(1)
    \/ Create_Publish(1)
    \/ Update_Update(1)
    \/ Update_Publish(1)

SpecCountry == InitPage /\ [][NextCountry]_vars

\* the ids a client collects from ListUsers by following next_page_token
\* until it comes back empty
RECURSIVE ListAll(_, _, _, _)
ListAll(st, country, page_size, page_token) ==
    LET out == GRPCServer_ListUsers(st,
                   ListUsersRequest(country, page_size, page_token)).resp
    IN IF out.err # "nil" THEN <<>>
       ELSE [i \in 1..Len(out.users) |-> out.users[i].id]
            \o (IF out.next_page_token = EmptyID THEN <<>>
                ELSE ListAll(st, country, page_size, out.next_page_token))

\* worker p has created a user that is still stored as created
Created(p) ==
    /\ pc[p] = "done" /\ req[p].op = "CreateUser" /\ resp[p].code = "OK"
    /\ resp[p].user.id \in DOMAIN store
    /\ store[resp[p].user.id].country = req[p].country

\* C9: a user CreateUser has returned is in the complete listing without
\* filter and in the complete listing filtered by the country of the request
C9_CreatedUserListed ==
    \A p \in Procs : Created(p) =>
        \A size \in PageSizes :
            /\ resp[p].user.id \in Range(ListAll(store, <<>>, size, EmptyID))
            /\ resp[p].user.id
                  \in Range(ListAll(store, req[p].country, size, EmptyID))

IsUpperLetter(c) == IsLetter(c) /\ ToUpperChar(c) = c

\* C10: every stored user has a country of exactly 2 uppercase letters
C10_StoredCountryNormalized ==
    \A id \in DOMAIN store :
        /\ Len(store[id].country) = countryCodeLength
        /\ \A i \in 1..Len(store[id].country) :
              IsUpperLetter(store[id].country[i])

\* --------------------------------------------------------------------------
\* SpecTime: two workers create and update users while the clock advances.
\* A handler starts at an instant later than every earlier reading of the
\* clock; the two readings of one Create are dt apart.
Fresh ==
    /\ \A i \in DOMAIN store : store[i].updated_at < now
    /\ \A q \in Procs : user[q].updated_at < now

NameNew == <<"a", "b">>
PasswordNew == <<"b", "b", "b", "b", "b", "b", "0", "@">>

NextTime ==
    \/ \E p \in {1}, id \in UUIDs, dt \in {0, 1} :
          /\ Fresh
          /\ CreateUser(p, CreateUserRequest(NameOK, NameOK, NameOK, EmailOf(id),
                                             PasswordOK, US), id, dt)
    \/ \E p \in Procs, id \in UUIDs, e \in {"e@x", EmailOf(1)} :
          /\ Fresh
          /\ UpdateUser(p, UpdateUserRequest(id, NameNew, NameNew, NameNew, e,
                                             PasswordNew, BR))
    \/ \E p \in Procs : Create_Insert(p)
    \/ \E p \in Procs : Create_Publish(p)
    \/ \E p \in Procs : Update_Update(p)
    \/ \E p \in Procs : Update_Publish(p)
    \/ Tick

SpecTime == Init /\ [][NextTime]_vars

\* the step in which worker p's INSERT / UPDATE succeeds
Inserts(p) == pc[p] = "Create.Insert" /\ pc'[p] = "Create.Publish"
Updates(p) == pc[p] = "Update.Update" /\ pc'[p] = "Update.Publish"

\* C11: the user a successful Create returns, and the row it inserts, have
\* created_at equal to updated_at
C11_CreatedEqualsUpdated ==
    /\ [](\A p \in Procs :
            (pc[p] = "done" /\ req[p].op = "CreateUser" /\ resp[p].code = "OK") =>
                resp[p].user.created_at = resp[p].user.updated_at)
    /\ [][\A p \in Procs :
            Inserts(p) => store'[user[p].id].created_at
                            = store'[user[p].id].updated_at]_vars

\* the row Update leaves for request r, made at clock reading t, from row old
UpdatedRow(old, r, t) ==
    [id |-> old.id, first_name |-> r.first_name, last_name |-> r.last_name,
     nickname |-> r.nickname, password |-> <<"$2a$">> \o r.password,
     email |-> r.email, country |-> r.country, created_at |-> old.created_at,
     updated_at |-> t]

\* C12: the step in which an Update succeeds replaces the six submitted
\* fields of the row of the request's id, sets its updated_at to the time the
\* Update read, keeps its id and created_at, and changes no other row.
C12_UpdateFrame ==
    [][\A p \in Procs :
        Updates(p) =>
            /\ req[p].id \in DOMAIN store
            /\ DOMAIN store' = DOMAIN store
            /\ store'[req[p].id]
                  = UpdatedRow(store[req[p].id], req[p],
                               Timestamptz(user[p].updated_at))
            /\ \A i \in DOMAIN store \ {req[p].id} : store'[i] = store[i]]_vars

C12_Witness ==
    /\ pc[1] = "done" /\ req[1].op = "UpdateUser" /\ resp[1].code = "OK"
    /\ req[1].id = 2 /\ DOMAIN store = {1, 2}
    /\ store[2].first_name = NameNew /\ store[2].email = "e@x"
    /\ store[2].country = BR
    /\ store[2].password = <<"$2a$">> \o PasswordNew
    /\ store[2].created_at < store[2].updated_at
    /\ store[1].first_name = NameOK

\* C13: the step in which an Update succeeds leaves the row with an
\* updated_at strictly later than the one it had
C13_UpdatedAtAdvances ==
    [][\A p \in Procs :
        Updates(p) => store'[req[p].id].updated_at
                        > store[req[p].id].updated_at]_vars

\* C14: every stored user has created_at <= updated_at
C14_CreatedBeforeUpdated ==
    \A i \in DOMAIN store : store[i].created_at <= store[i].updated_at

C14_Witness ==
    /\ DOMAIN store = {1}
    /\ store[1].first_name = NameNew
    /\ store[1].created_at < store[1].updated_at
    /\ \E p \in Procs :
          /\ pc[p] = "done" /\ req[p].op = "UpdateUser" /\ resp[p].code = "OK"
          /\ req[p].id = 1
          /\ resp[p].user.updated_at < store[1].updated_at

\* C15: an Update of an id that is in no row ends with ErrUserNotFound /
\* NotFound, after one repo.Update call that changed nothing, with no publish
C15_UpdateNotFound ==
    /\ [](\A p \in Procs :
            (/\ pc[p] = "done" /\ req[p].op = "UpdateUser"
             /\ resp[p].err = "ErrUserNotFound") =>
                /\ resp[p].code = "NotFound"
                /\ trace[p] = <<"service.Update", "repo.Update">>
                /\ \A k \in 1..Len(events) :
                      events[k] # [event |-> "user.updated", data |-> req[p].id])
    /\ [][\A p \in Procs :
            (pc[p] = "Update.Update" /\ req[p].id \notin DOMAIN store) =>
                (pc'[p] = pc[p]
                 \/ /\ pc'[p] = "done"
                    /\ resp'[p] = ErrResponse("ErrUserNotFound")
                    /\ store' = store /\ events' = events)]_vars

C15_Witness ==
    /\ pc[1] = "done" /\ req[1].op = "UpdateUser" /\ req[1].id = 3
    /\ resp[1].code = "NotFound"
    /\ DOMAIN store = {1, 2}
    /\ Len(events) = 2

\* --------------------------------------------------------------------------
\* SpecPub: worker 1 creates, updates and fetches users while worker 2
\* deletes and lists them; the service
\* has no publisher, one whose Publish succeeds or one whose Publish fails,
\* and the database is up or fails every statement.
Publishers == {"nil", "fakePubSub", "failingPubSub"}

InitPub == \E pub \in Publishers, conn \in {"up"} \cup DbErrors : InitEnv(pub, conn)

NextPub ==
    \/ \E id \in UUIDs :
          CreateUser(1, CreateUserRequest(NameOK, NameOK, NameOK, EmailOf(id),
                                          PasswordOK, US), id, 0)
    \/ Create_Insert(1)
    \/ Create_Publish(1)
    \/ \E i \in UUIDs :
          UpdateUser(1, UpdateUserRequest(i, NameOK, NameOK, NameOK, EmailOf(1),
                                          PasswordOK, US))
    \/ Update_Update(1)
    \/ Update_Publish(1)
    \/ \E i \in UUIDs \cup {MalformedID} : DeleteUser(2, DeleteUserRequest(i))
    \/ Delete_Publish(2)
    \/ GetUser(1, GetUserRequest(1))
    \/ ListUsers(2, ListUsersRequest(<<>>, 0, EmptyID))

SpecPub == InitPub /\ [][NextPub]_vars

Mutations == {"CreateUser", "UpdateUser", "DeleteUser"}
PublishSteps == {"Create.Publish", "Update.Publish", "Delete.Publish"}

\* the Publish calls made for worker p's request
NPublish(p) ==
    Cardinality({k \in 1..Len(trace[p]) : trace[p][k] = "Publish"})

\* the response of worker p's request when everything succeeds
Success(p) ==
    IF req[p].op = "DeleteUser" THEN DeleteUserResponse
    ELSE UserResponse(user[p])

\* C16: with a publisher whose Publish fails, a Create, Update or Delete that
\* reached its publish returns its success response, Publish was called once
\* for it, and the publish step leaves the table as the storage call left it.
C16_PublishBestEffort ==
    /\ [](\A p \in Procs :
            (/\ publisher = "failingPubSub"
             /\ pc[p] = "done" /\ req[p].op \in Mutations
             /\ "Publish" \in Range(trace[p])) =>
                /\ resp[p] = Success(p)
                /\ NPublish(p) = 1)
    /\ [][\A p \in Procs :
            (/\ publisher = "failingPubSub"
             /\ pc[p] \in PublishSteps /\ pc'[p] # pc[p]) =>
                /\ pc'[p] = "done"
                /\ resp'[p] = Success(p)
                /\ store' = store
                /\ Len(events') = Len(events) + 1]_vars

C16_Witness ==
    /\ publisher = "failingPubSub"
    /\ pc[1] = "done" /\ req[1].op = "UpdateUser" /\ resp[1].code = "OK"
    /\ pc[2] = "done" /\ req[2].op = "DeleteUser" /\ resp[2].code = "OK"
    /\ req[1].id = 1 /\ req[2].id = 1
    /\ Len(events) = 3 /\ events[3].event = "user.deleted"
    /\ store = <<>>

\* the event a publish step of the given kind sends for id
EventOf(step, id) ==
    [event |-> CASE step = "Create.Publish" -> "user.created"
                 [] step = "Update.Publish" -> "user.updated"
                 [] OTHER -> "user.deleted",
     data |-> id]

\* the storage call of worker p's finished mutation returned success with
\* a row written or removed
StorageSucceeded(p) ==
    /\ req[p].op \in Mutations /\ resp[p].code = "OK"
    /\ "repo.Delete:0" \notin Range(trace[p])

\* C17: a finished Create, Update or Delete whose storage call succeeded has
\* published once when a publisher is configured; reads, requests rejected
\* for their id, operations whose storage call returned an error and Deletes
\* that found no row have published nothing; without a publisher nothing is
\* published and the responses are the same. The events change only by a
\* publish step appending one event of the operation's kind with the id.
C17_PublishIffStored ==
    /\ [](\A p \in Procs : pc[p] = "done" =>
            /\ NPublish(p) = IF StorageSucceeded(p) /\ publisher # "nil"
                              THEN 1 ELSE 0
            /\ (req[p].op = "DeleteUser" /\ resp[p].code = "OK") =>
                  resp[p] = DeleteUserResponse)
    /\ [](publisher = "nil" => events = <<>>)
    /\ [][\/ events' = events
          \/ \E p \in Procs :
                /\ pc[p] \in PublishSteps /\ pc'[p] = "done"
                /\ publisher # "nil"
                /\ events' = Append(events, EventOf(pc[p],
                                 IF pc[p] = "Delete.Publish" THEN req[p].id
                                 ELSE user[p].id))]_vars

\* --------------------------------------------------------------------------
\* SpecErr: an error is created below the transport (a sentinel of the
\* service or of the repository, or an error of the database driver), the
\* layers it passes wrap it with context, and a handler converts it.
MaxWrap == 2

Roots ==
    {"service.ErrInvalidID", "service.ErrUserNotFound",
     "service.ErrCountryCodeInvalid", "service.ErrUserAlreadyExists",
     "repository.ErrUserNotFound", "repository.ErrDuplicateEmail"}
        \cup DbErrors

Contexts ==
    {"could not get user", "could not fetch user with id",
     "could not insert user", "could not validate fetch all filter"}

\* errors.New / the driver returns the error
Raise(text) ==
    /\ svcErr = Nil
    /\ pc[1] = "idle"
    /\ svcErr' = errors_New(text)
    /\ UNCHANGED <<store, events, now, usedIds, publisher, db, pc, req, resp,
                   user, trace, trav>>

\* return fmt.Errorf("<msg>: %w", err)
Rewrap(msg) ==
    /\ svcErr # Nil
    /\ pc[1] = "idle"
    /\ Len(svcErr) <= MaxWrap
    /\ svcErr' = Wrap(msg, svcErr)
    /\ UNCHANGED <<store, events, now, usedIds, publisher, db, pc, req, resp,
                   user, trace, trav>>

\* return nil, convertServiceError(err)
Convert ==
    /\ svcErr # Nil
    /\ pc[1] = "idle"
    /\ Finish(1, ErrResponse(convertServiceError(svcErr)))
    /\ UNCHANGED <<store, events, now, usedIds, publisher, db, svcErr, req,
                   user, trace, trav>>

NextErr ==
    \/ \E text \in Roots : Raise(text)
    \/ \E msg \in Contexts : Rewrap(msg)
    \/ Convert

SpecErr == InitPage /\ [][NextErr]_vars

\* the error at the end of the chain
Root(err) == err[Len(err)]

\* the status code the claim gives an error with the given root
Expected(root) ==
    CASE root = "service.ErrUserNotFound" -> "NotFound"
      [] root = "service.ErrUserAlreadyExists" -> "AlreadyExists"
      [] root = "service.ErrCountryCodeInvalid" -> "InvalidArgument"
      [] OTHER -> "Internal"

\* C18: a converted error has the status code of its root, however many
\* times it was wrapped: NotFound, AlreadyExists, InvalidArgument for the
\* three service sentinels, Internal for everything else; the caller gets
\* one of the four transport errors, never the error itself.
C18_ErrorMapping ==
    (pc[1] = "done" /\ svcErr # Nil) =>
        /\ resp[1].code = Expected(Root(svcErr))
        /\ resp[1].err \in {"ErrUserNotFound", "ErrUserAlreadyExists",
                            "ErrCountryCodeInvalid", "ErrInternal"}
        /\ resp[1].code = StatusCode(resp[1].err)
        /\ resp[1].user = NilWireUser /\ resp[1].users = <<>>

C18_Witness ==
    /\ pc[1] = "done"
    /\ svcErr = <<"could not fetch user with id", "could not get user",
                  "service.ErrUserNotFound">>
    /\ resp[1].code = "NotFound"

\* C19: a request its validator rejected was answered with status
\* InvalidArgument
C19_ValidationInvalidArgument ==
    \A p \in Procs :
        (pc[p] = "done" /\ Rejected(req[p])) =>
            resp[p].code = "InvalidArgument"

\* --------------------------------------------------------------------------
\* SpecSize: one worker creates, deletes and lists users, one request after
\* the other; the page sizes are taken from the whole range of int32.
MaxInt32 == (2^30 - 1) + 2^30
MinInt32 == (0 - MaxInt32) - 1

SizeInputs ==
    {MinInt32, 0 - 1, 0, 1, 2, defaultPageSize - 1, defaultPageSize,
     defaultPageSize + 1, MaxInt32}

NextSize ==
    \/ \E id \in UUIDs :
          CreateUser(1, CreateUserRequest(NameOK, NameOK, NameOK, EmailOf(id),
                                          PasswordOK, US), id, 0)
    \/ Create_Insert(1)
    \/ Create_Publish(1)
    \/ \E i \in UUIDs : DeleteUser(1, DeleteUserRequest(i))
    \/ Delete_Publish(1)
    \/ \E n \in SizeInputs, t \in {EmptyID, 1} :
          ListUsers(1, ListUsersRequest(<<>>, n, t))

SpecSize == InitPage /\ [][NextSize]_vars

\* C20: a ListUsers with any page_size succeeds; the limit it forwards is
\* the page_size when that is in 1..100 and 100 otherwise, and the page holds
\* that many users or all that are left.
C20_PageSizeClamped ==
    \A p \in Procs :
        (pc[p] = "done" /\ req[p].op = "ListUsers") =>
            LET n == req[p].page_size
                limit == IF n \in 1..100 THEN n ELSE 100
                left == Cardinality({i \in DOMAIN store : i > req[p].page_token})
            IN /\ MinInt32 <= n /\ n <= MaxInt32
               /\ PageSize(req[p]) = limit
               /\ PageSize(req[p]) \in 1..100
               /\ resp[p].code = "OK"
               /\ Len(resp[p].users) = IF left < limit THEN left ELSE limit

C20_Witness ==
    /\ pc[1] = "done" /\ req[1].op = "ListUsers"
    /\ req[1].page_size = MinInt32 /\ req[1].page_token = 1
    /\ DOMAIN store = {1, 2, 3}
    /\ Len(resp[1].users) = 2 /\ resp[1].next_page_token = EmptyID

\* --------------------------------------------------------------------------
\* SpecRead: one worker sends one request after the other (creates, updates,
\* deletes, fetches, listings) while the clock advances, so that between a
\* finished request and the state examined no other operation has run.
PasswordLong == Rep("a", maxBcryptLength - 1) \o <<"1", "@">>

\* a password of 39 characters and 75 bytes: byte 72 is the first byte of
\* a two-byte letter
PasswordAccented == <<"a">> \o Rep("é", 36) \o <<"1", "@">>

ReadPasswords == {PasswordOK, PasswordLong, PasswordAccented}

\* the users the requests of SpecRead are about
ReadIds == {1, 2}

NextRead ==
    \/ \E id \in ReadIds, pw \in ReadPasswords, dt \in {0, 1} :
          CreateUser(1, CreateUserRequest(NameOK, NameOK, NameOK, EmailOf(id),
                                          pw, US), id, dt)
    \/ Create_Insert(1)
    \/ Create_Publish(1)
    \/ \E id \in ReadIds, pw \in {PasswordNew, PasswordLong, PasswordAccented} :
          UpdateUser(1, UpdateUserRequest(id, NameNew, NameNew, NameNew,
                                          EmailOf(id), pw, BR))
    \/ Update_Update(1)
    \/ Update_Publish(1)
    \/ \E id \in ReadIds : DeleteUser(1, DeleteUserRequest(id))
    \/ Delete_Publish(1)
    \/ \E id \in ReadIds : GetUser(1, GetUserRequest(id))
    \/ \E c \in {<<>>, US} : ListUsers(1, ListUsersRequest(c, 0, EmptyID))

SpecRead == Init /\ [][NextRead]_vars

\* worker p's last request was of kind op and has returned a user
Returned(p, op) ==
    pc[p] = "done" /\ req[p].op = op /\ resp[p].code = "OK"

\* the wire user a GetUser of id returns now
GetNow(id) == GRPCServer_GetUser(store, GetUserRequest(id)).resp.user

\* C21: right after a successful CreateUser, GetUser of the returned id
\* returns a user equal to the CreateUser response in every wire field
C21_GetAfterCreate ==
    \A p \in Procs :
        Returned(p, "CreateUser") => GetNow(resp[p].user.id) = resp[p].user

\* the users a response carries
WireUsers(out) == {out.user} \cup Range(out.users)

WireFields ==
    {"id", "first_name", "last_name", "nickname", "email", "country",
     "created_at", "updated_at"}

\* the passwords submitted in the requests at hand and every stored hash
Secrets ==
    {req[q].password : q \in Procs} \cup {user[q].password : q \in Procs}
        \cup {store[i].password : i \in DOMAIN store}

\* C22: no response carries a password field, or a submitted password or a
\* stored hash in another field; every stored password is a bcrypt hash, and
\* the step in which a Create or an Update writes its row stores a hash that
\* matches the submitted plaintext and is not the plaintext.
C22_PasswordNeverExposed ==
    /\ [](\A p \in Procs : \A u \in WireUsers(resp[p]) :
            /\ DOMAIN u = WireFields
            /\ \A f \in {"first_name", "last_name", "nickname", "country"} :
                  u[f] \notin Secrets \ {<<>>})
    /\ [](\A i \in DOMAIN store :
            /\ Head(store[i].password) = "$2a$"
            /\ \A q \in Procs : store[i].password # req[q].password)
    /\ [][\A p \in Procs :
            (Inserts(p) \/ Updates(p)) =>
                /\ store'[user[p].id].password # req[p].password
                /\ CompareHashAndPassword(store'[user[p].id].password,
                                          req[p].password)]_vars

C22_Witness ==
    /\ pc[1] = "done" /\ req[1].op = "ListUsers"
    /\ Len(resp[1].users) = 2
    /\ DOMAIN store = {1, 2}
    /\ store[1].password = Hash(Bytes(PasswordNew))
    /\ store[2].password = Hash(Truncated(Bytes(PasswordAccented)))
    /\ store[2].password[maxBcryptLength + 1] = "0xC3"
    /\ store[1].first_name = NameNew /\ store[2].first_name = NameOK

\* --------------------------------------------------------------------------
\* SpecHealth: both workers check the health of the service while the
\* connection to the database breaks, stalls and comes back; worker 2 also
\* creates and fetches users.
NextHealth ==
    \/ \E p \in Procs : CheckHeath(p)
    \/ \E conn \in {"up"} \cup DbErrors : Connection(conn)
    \/ \E id \in UUIDs :
          CreateUser(2, CreateUserRequest(NameOK, NameOK, NameOK, EmailOf(id),
                                          PasswordOK, US), id, 0)
    \/ Create_Insert(2)
    \/ Create_Publish(2)
    \/ \E id \in UUIDs : GetUser(2, GetUserRequest(id))

SpecHealth == Init /\ [][NextHealth]_vars

\* worker p's health check returns in this step
HealthReturns(p) ==
    /\ pc[p] \in Rest /\ pc'[p] = "done"
    /\ req'[p].op = "CheckHeath"
    /\ db' = db
    /\ \A q \in Procs \ {p} :
          pc'[q] = pc[q] /\ req'[q] = req[q] /\ resp'[q] = resp[q]

\* C23: a health check returns no error and the status SERVING or
\* NOT_SERVING, never UNKNOWN: SERVING when the probe of the database
\* succeeds, NOT_SERVING when it fails or times out.
C23_HealthNeverFails ==
    /\ [](\A p \in Procs :
            (pc[p] = "done" /\ req[p].op = "CheckHeath") =>
                /\ resp[p].err = "nil" /\ resp[p].code = "OK"
                /\ resp[p].status \in {"SERVING", "NOT_SERVING"})
    /\ [][\A p \in Procs :
            HealthReturns(p) =>
                resp'[p].status = IF db = "up" THEN "SERVING"
                                  ELSE "NOT_SERVING"]_vars

C23_Witness ==
    /\ pc[1] = "done" /\ req[1].op = "CheckHeath"
    /\ resp[1].status = "NOT_SERVING"
    /\ pc[2] = "done" /\ req[2].op = "CheckHeath"
    /\ resp[2].status = "SERVING"
    /\ db = "context deadline exceeded"
    /\ DOMAIN store = {1}

\* --------------------------------------------------------------------------
\* SpecOutage: worker 1 creates, updates and fetches users and worker 2
\* deletes and lists them while the connection to the database breaks,
\* stalls beyond the deadline of the storage calls, and comes back.
\* the users the requests of SpecOutage are about
OutageIds == {1, 2}

NextOutage ==
    \/ \E conn \in {"up", "context deadline exceeded"} : Connection(conn)
    \/ \E id \in OutageIds :
          CreateUser(1, CreateUserRequest(NameOK, NameOK, NameOK, EmailOf(id),
                                          PasswordOK, US), id, 0)
    \/ Create_Insert(1)
    \/ Create_Publish(1)
    \/ \E i \in OutageIds :
          UpdateUser(1, UpdateUserRequest(i, NameOK, NameOK, NameOK, EmailOf(1),
                                          PasswordOK, US))
    \/ Update_Update(1)
    \/ Update_Publish(1)
    \/ GetUser(1, GetUserRequest(1))
    \/ \E i \in OutageIds : DeleteUser(2, DeleteUserRequest(i))
    \/ Delete_Publish(2)
    \/ \E c \in {<<>>, US} : ListUsers(2, ListUsersRequest(c, 0, EmptyID))

SpecOutage == Init /\ [][NextOutage]_vars

RepoCalls ==
    {"repo.Get", "repo.GetAll", "repo.GetByCountry", "repo.Insert",
     "repo.Update", "repo.Delete:0", "repo.Delete:1"}

\* in this step worker p makes a storage call, which runs into the deadline
TimedOutCall(p) ==
    /\ db = "context deadline exceeded" /\ db' = db
    /\ trace'[p] # <<>>
    /\ trace'[p][Len(trace'[p])] \in RepoCalls
    /\ pc'[p] # pc[p] \/ req'[p] # req[p] \/ trace'[p] # trace[p]
    /\ \A q \in Procs \ {p} :
          pc'[q] = pc[q] /\ req'[q] = req[q] /\ trace'[q] = trace[q]

\* C24: an operation whose storage call does not complete within its bound
\* returns at once with the transport error of status Internal, and no
\* event is published for it.
C24_TimeoutIsInternal ==
    [][\A p \in Procs :
        TimedOutCall(p) =>
            /\ pc'[p] = "done"
            /\ resp'[p] = ErrResponse("ErrInternal")
            /\ resp'[p].code = "Internal"
            /\ events' = events
            /\ "Publish" \notin Range(trace'[p])]_vars

C24_Witness ==
    /\ db = "context deadline exceeded"
    /\ pc[1] = "done" /\ req[1].op = "UpdateUser" /\ req[1].id = 1
    /\ trace[1] = <<"service.Update", "repo.Update">>
    /\ resp[1].code = "Internal"
    /\ pc[2] = "done" /\ req[2].op = "DeleteUser" /\ req[2].id = 1
    /\ trace[2] = <<"service.Delete", "repo.Delete:0">>
    /\ resp[2].code = "Internal"
    /\ DOMAIN store = {1}
    /\ Len(events) = 1

\* --------------------------------------------------------------------------
\* SpecFetchAll: one worker creates and deletes users and calls
\* ServiceDefault.FetchAll directly, with the filter absent or present in
\* several spellings and with several cursors and limits.
FetchFilters ==
    {NoFilter} \cup
    {CountryFilter(c) : c \in {<<>>, us, <<" ", "u", "s", " ">>, BR, <<"U">>,
                               <<" ", "U">>, <<"U", "S", "A">>}}

FetchPaginations ==
    {[cursor |-> t, limit |-> n] :
        t \in {EmptyID, 1, 2}, n \in {0, 1, 2, defaultPageSize}}

NextFetchAll ==
    \/ \E id \in UUIDs, c \in {US, BR} :
          CreateUser(1, CreateUserRequest(NameOK, NameOK, NameOK, EmailOf(id),
                                          PasswordOK, c), id, 0)
    \/ Create_Insert(1)
    \/ Create_Publish(1)
    \/ \E i \in UUIDs : DeleteUser(1, DeleteUserRequest(i))
    \/ Delete_Publish(1)
    \/ \E f \in FetchFilters, pag \in FetchPaginations : FetchAll(1, f, pag)

SpecFetchAll == InitPage /\ [][NextFetchAll]_vars

\* ids is the page of at most limit ids of S after the cursor, in ascending
\* order and without a gap
IsPage(ids, S, cursor, limit) ==
    LET after == {i \in S : i > cursor}
    IN /\ StrictlyAscending(ids)
       /\ Range(ids) \subseteq after
       /\ Len(ids) = IF Cardinality(after) < limit THEN Cardinality(after)
                     ELSE limit
       /\ \A i \in after \ Range(ids) : \A j \in Range(ids) : j < i

\* C25: FetchAll with a filter present trims and upper-cases the country;
\* when the result is not 2 long (an empty filter included) it returns
\* ErrCountryCodeInvalid and calls no storage; otherwise it calls only
\* GetByCountry with the normalized country. With no filter it calls only
\* GetAll. Cursor and limit reach the storage as they were given, and the
\* users returned are the page they select.
C25_FetchAllDispatch ==
    \A p \in Procs :
        (pc[p] = "done" /\ req[p].op = "FetchAll") =>
            LET n == ToUpper(TrimSpace(req[p].country))
                pag == [cursor |-> req[p].page_token,
                        limit |-> req[p].page_size]
                f == ServiceDefault_FetchAll(
                         store,
                         [present |-> req[p].present,
                          country |-> req[p].country], pag)
                ids == [i \in 1..Len(resp[p].users) |-> resp[p].users[i].id]
            IN IF req[p].present /\ Len(n) # 2
               THEN /\ errors_Is(svcErr, "service.ErrCountryCodeInvalid")
                    /\ trace[p] = <<>>
                    /\ ids = <<>>
               ELSE IF req[p].present
               THEN /\ svcErr = Nil
                    /\ trace[p] = <<"repo.GetByCountry">>
                    /\ f.args = [country |-> n, cursor |-> pag.cursor,
                                 limit |-> pag.limit]
                    /\ IsPage(ids, {i \in DOMAIN store : store[i].country = n},
                              pag.cursor, pag.limit)
               ELSE /\ svcErr = Nil
                    /\ trace[p] = <<"repo.GetAll">>
                    /\ f.args = [country |-> <<>>, cursor |-> pag.cursor,
                                 limit |-> pag.limit]
                    /\ IsPage(ids, DOMAIN store, pag.cursor, pag.limit)

C25_Witness ==
    /\ pc[1] = "done" /\ req[1].op = "FetchAll"
    /\ req[1].present /\ req[1].country = <<" ", "u", "s", " ">>
    /\ req[1].page_token = 1 /\ req[1].page_size = 1
    /\ DOMAIN store = {1, 2, 3}
    /\ store[2].country = BR /\ store[3].country = US
    /\ Len(resp[1].users) = 1 /\ resp[1].users[1].id = 3

\* ------------------------------------------------- password boundaries
\* a password of n characters with a letter, a digit and a symbol
Composed(n) == Rep("a", n - 2) \o <<"1", "@">>

\* the same with a first letter outside ASCII
ComposedAccented(n) == <<"é">> \o Rep("a", n - 3) \o <<"1", "@">>

BoundaryPasswords ==
    {<<>>,
     Composed(minPasswordLength - 1), Composed(minPasswordLength),
     Composed(maxPasswordLength), Composed(maxPasswordLength + 1),
     Rep("a", minPasswordLength - 1), Rep("a", maxPasswordLength + 1),
     Rep("a", minPasswordLength - 1) \o <<"@">>,
     Rep("a", minPasswordLength - 1) \o <<"1">>,
     Rep("1", minPasswordLength - 1) \o <<"@">>,
     ComposedAccented(minPasswordLength - 1),
     ComposedAccented(minPasswordLength),
     ComposedAccented(maxPasswordLength),
     ComposedAccented(maxPasswordLength + 1)}

NextPassword ==
    \/ \E pw \in BoundaryPasswords :
          CreateUser(1, CreateUserRequest(NameOK, NameOK, NameOK, EmailOf(1),
                                          pw, US), 1, 0)
    \/ Create_Insert(1)
    \/ Create_Publish(1)
    \/ \E id \in {1, 2}, pw \in BoundaryPasswords :
          UpdateUser(1, UpdateUserRequest(id, NameNew, NameNew, NameNew,
                                          EmailOf(id), pw, BR))
    \/ Update_Update(1)
    \/ Update_Publish(1)

SpecPassword == Init /\ [][NextPassword]_vars

\* the password of the request of p was validated and the handler has
\* answered or moved on to the service
Validated(p) ==
    /\ req[p].op \in {"CreateUser", "UpdateUser"}
    /\ pc[p] # "idle"

PasswordErrors == {"ErrPasswordRequired", "ErrPasswordLength", "ErrPasswordFormat"}

\* the answer the password rule asks for, lengths counted in characters
PasswordRule(password) ==
    LET n == Len(password)
        letter == \E i \in 1..n : IsLetter(password[i])
        digit == \E i \in 1..n : IsNumber(password[i])
        other == \E i \in 1..n : ~IsLetter(password[i]) /\ ~IsNumber(password[i])
    IN IF n = 0 THEN "ErrPasswordRequired"
       ELSE IF n < 8 \/ n > 128 THEN "ErrPasswordLength"
       ELSE IF ~(letter /\ digit /\ other) THEN "ErrPasswordFormat"
       ELSE "accepted"

\* what the handler did with the password of the request of p
PasswordAnswer(p) ==
    IF resp[p].err \in PasswordErrors THEN resp[p].err ELSE "accepted"

\* C26: a password is accepted exactly when it is non-empty, 8 to 128
\* characters long and holds a letter, a digit and a character that is
\* neither; an empty one is answered PasswordRequired, one whose length is
\* out of range PasswordLength whatever its composition, and one in range
\* with a missing class PasswordFormat
C26_PasswordBoundaries ==
    \A p \in Procs :
        Validated(p) => PasswordAnswer(p) = PasswordRule(req[p].password)

\* C26 for the passwords made of ASCII characters only
C26_AsciiPasswordBoundaries ==
    \A p \in Procs :
        Validated(p) /\ len(req[p].password) = Len(req[p].password)
            => PasswordAnswer(p) = PasswordRule(req[p].password)

\* ------------------------------------------------ following the page token
\* The client sends the next_page_token of the last response as page_token,
\* with the same page size and filter, until a response carries no token.
TokenNext ==
    /\ trav.active /\ ~trav.done
    /\ LET out == GRPCServer_ListUsers(store,
                     ListUsersRequest(trav.country, trav.page_size, trav.token))
           page == out.resp.users
       IN trav' =
            IF out.resp.err # "nil"
            THEN [trav EXCEPT !.done = TRUE, !.err = out.resp.err,
                              !.calls = @ + 1]
            ELSE [trav EXCEPT !.seen = @ \o [i \in 1..Len(page) |-> page[i].id],
                              !.cursor = out.resp.next_page_token,
                              !.token = out.resp.next_page_token,
                              !.calls = @ + 1,
                              !.done = (out.resp.next_page_token = EmptyID)]
    /\ UNCHANGED <<store, events, now, usedIds, publisher, db, svcErr, pc, req,
                   resp, user, trace>>

TokenPageSizes == {0, 1, 2}

NextFollow ==
    \/ \E id \in UUIDs, c \in {US, BR} :
          CreateUser(1, CreateUserRequest(NameOK, NameOK, NameOK, EmailOf(id),
                                          PasswordOK, c), id, 0)
    \/ Create_Insert(1)
    \/ Create_Publish(1)
    \/ \E c \in PageFilters, n \in TokenPageSizes : TravStart(c, n)
    \/ TokenNext

SpecFollow == InitPage /\ [][NextFollow]_vars

\* the page size the handler works with for a traversal
TravPageSize == PageSize(ListUsersRequest(trav.country, trav.page_size, EmptyID))

\* the largest number of calls a traversal of the table takes
MaxCalls == (Cardinality(Matching(store, trav.country)) \div TravPageSize) + 1

\* C27: over a table that is not modified, a traversal that follows
\* next_page_token never has a token refused and reaches an empty
\* next_page_token within floor(N / page_size) + 1 calls for N matching
\* users: every call before the last returns a full page, so the client has
\* made no more than that many calls and is done once it has made them
C27_TraversalTerminates ==
    (trav.active /\ ~trav.dirty) =>
        /\ trav.err = "nil"
        /\ trav.calls <= MaxCalls
        /\ trav.calls = MaxCalls => trav.done
        /\ ~trav.done => Len(trav.seen) = trav.calls * TravPageSize

\* two matching users listed two to a page: the second call returns an
\* empty page and no token
C27_Witness ==
    /\ trav.active /\ trav.done /\ ~trav.dirty /\ trav.err = "nil"
    /\ trav.page_size = 2 /\ trav.calls = 2
    /\ Len(trav.seen) = 2
    /\ Cardinality(Matching(store, trav.country)) = 2

\* ------------------------------------------------- order of the events
\* worker p publishes event for id in this step
Publishes(p, event, id) ==
    /\ publisher = "fakePubSub"
    /\ pc[p] \in PublishSteps /\ pc'[p] = "done"
    /\ events' = Append(events, [event |-> event, data |-> id])

\* worker q has answered a DeleteUser of id whose DELETE removed the row,
\* and the user.deleted event of that delete is published
RemovedAndPublished(q, id) ==
    /\ Deleted(q) /\ req[q].id = id
    /\ trace[q] = <<"service.Delete", "repo.Delete:1", "Publish">>
    /\ \E k \in 1..Len(events) :
          events[k] = [event |-> "user.deleted", data |-> id]

\* C28: the events of one id are published in the order of the writes they
\* report: no user.updated of an id is published once the user.deleted of
\* the delete that removed the row of that id has been published
C28_UpdatedNeverAfterDeleted ==
    [][\A p \in Procs, id \in UUIDs :
          Publishes(p, "user.updated", id)
              => ~\E q \in Procs : RemovedAndPublished(q, id)]_vars

\* --------------------------------------------------- read after update
\* C29: right after a successful UpdateUser, GetUser of the same id returns
\* a user equal to the UpdateUser response in every wire field, created_at
\* included
C29_GetAfterUpdate ==
    \A p \in Procs :
        Returned(p, "UpdateUser") => resp[p].user = GetNow(req[p].id)

\* C29 without the two timestamps
C29_GetAfterUpdateButTimes ==
    \A p \in Procs :
        Returned(p, "UpdateUser") =>
            \A f \in WireFields \ {"created_at", "updated_at"} :
                resp[p].user[f] = GetNow(req[p].id)[f]

\* C21 without the two timestamps
C21_GetAfterCreateButTimes ==
    \A p \in Procs :
        Returned(p, "CreateUser") =>
            \A f \in WireFields \ {"created_at", "updated_at"} :
                resp[p].user[f] = GetNow(resp[p].user.id)[f]

\* the created_at part of C29
C29_CreatedAtAfterUpdate ==
    \A p \in Procs :
        Returned(p, "UpdateUser") =>
            resp[p].user.created_at = GetNow(req[p].id).created_at

\* ------------------------------------------------- deleted users stay gone
\* SpecGone: two workers create, update, delete and fetch users in any
\* interleaving.  The caller of a create may supply an id of its own, which
\* the random id uuid.New() returns does not equal.
NextGone ==
    \/ \E id \in UUIDs : \E supplied \in (UUIDs \ {id}) \cup {EmptyID} :
          CreateUser(1, [CreateUserRequest(NameOK, NameOK, NameOK, EmailOf(id),
                                           PasswordOK, US)
                            EXCEPT !.id = supplied], id, 0)
    \/ Create_Insert(1)
    \/ Create_Publish(1)
    \/ \E p \in {1}, i \in UUIDs :
          UpdateUser(p, UpdateUserRequest(i, NameNew, NameNew, NameNew,
                                          EmailOf(i), PasswordNew, BR))
    \/ \E p \in Procs : Update_Update(p)
    \/ \E p \in Procs : Update_Publish(p)
    \/ \E p \in Procs, i \in UUIDs : DeleteUser(p, DeleteUserRequest(i))
    \/ \E p \in Procs : Delete_Publish(p)
    \/ \E p \in {2}, i \in UUIDs : GetUser(p, GetUserRequest(i))

SpecGone == InitPage /\ [][NextGone]_vars

\* id has been seen (generated or named in a request), has no row and no
\* insert under way: the state of the id of a removed row
Gone(id) == id \in usedIds /\ id \notin DOMAIN store /\ id \notin Pending

\* worker p handles a GetUser of id in this step
Fetches(p, id) ==
    /\ pc[p] \in Rest /\ pc'[p] = "done"
    /\ req'[p] = GetUserRequest(id)
    /\ \A q \in Procs \ {p} :
          <<pc[q], req[q], resp[q], user[q], trace[q]>>
              = <<pc'[q], req'[q], resp'[q], user'[q], trace'[q]>>
    /\ <<store, events, now, db>> = <<store', events', now', db'>>

\* C30: a deleted user never comes back: the id of a removed row is gone
\* and stays gone in every later state, a GetUser of a gone id is answered
\* NotFound, and an update of a gone id is answered NotFound and writes no
\* row; a row only appears by the insert of a create, under the id uuid.New
\* returned, which is no id seen before and not the id the caller supplied
C30_DeletedNeverComesBack ==
    [][\A id \in UUIDs :
          /\ (id \in DOMAIN store /\ id \notin DOMAIN store') => Gone(id)'
          /\ (id \notin DOMAIN store /\ id \in DOMAIN store') =>
                \E p \in Procs : /\ Inserts(p) /\ user[p].id = id
                                  /\ req[p].id # id
          /\ Gone(id) =>
                /\ Gone(id)'
                /\ \A p \in Procs :
                      /\ Fetches(p, id) => resp'[p].err = "ErrUserNotFound"
                      /\ (pc[p] = "Update.Update" /\ pc'[p] # pc[p]
                            /\ req[p].id = id)
                          => /\ resp'[p].err = "ErrUserNotFound"
                             /\ store' = store]_vars

\* user 1 was created and deleted; afterwards an update of user 1 was
\* answered NotFound, and the only row is that of another create
C30_Witness ==
    /\ Deleted(2) /\ req[2].id = 1
    /\ trace[2] = <<"service.Delete", "repo.Delete:1">>
    /\ pc[1] = "done" /\ req[1].op = "UpdateUser" /\ req[1].id = 1
    /\ resp[1].err = "ErrUserNotFound"
    /\ DOMAIN store = {2}

====
